---- MODULE Spec2Model ----
(***************************************************************************)
(* A model of the sBTC signer coordination core:                           *)
(*   - the block observer   (signer/src/block_observer.rs)                 *)
(*   - the coordinator      (signer/src/transaction_coordinator.rs)        *)
(* The observer is modelled as one task whose position (pc) advances at    *)
(* every await of BlockObserver::run; storage is the shared database.      *)
(***************************************************************************)
EXTENDS Integers, Sequences, FiniteSets, TLC

(***************************************************************************)
(* Bounds of the model.                                                    *)
(***************************************************************************)
NumBlocks == 3
MaxHorizon == 2
MaxStream == 3
NumTx == 4
NumScripts == 1
MaxPending == 2
MaxPass == 2

(***************************************************************************)
(* Program constants.                                                      *)
(***************************************************************************)
\* BlockHash::all_zeros(), the prev_blockhash of a genesis block.
NoHash == 0
\* bitcoin::ScriptBuf::new(), the empty script.
EmptyScript == 0

Blocks == 1..NumBlocks
Txids == 1..NumTx
\* A txid the Bitcoin node does not know (get_tx returns None).
UnknownTxid == NumTx + 1
Scripts == 1..NumScripts
\* Items of the block-hash stream: Result<BlockHash, Error>.
OkItem(h) == [ok |-> TRUE, hash |-> h]
StreamErr == [ok |-> FALSE, hash |-> 0]

VARIABLES
    \* ---- environment, fixed when the observer is constructed
    chain,              \* Bitcoin port: block hash -> header.prev_blockhash
    avail,              \* Bitcoin port: the hashes get_block answers Some for
    horizon,            \* BlockObserver.horizon
    stream,             \* BlockObserver.bitcoin_blocks: the items it will yield
    emily,              \* EmilyInteract::get_deposits: the pending requests
    \* ---- BlockObserver task
    pc,                 \* position of the run() future
    pos,                \* number of stream items consumed
    item,               \* new_block_hash of the current tick
    blocks,             \* blocks of the tick still to be processed
    deposit_requests,   \* BlockObserver.deposit_requests: txid -> Vec<Deposit>
    signals,            \* BitcoinBlockObserved signals sent
    pass,               \* how many observers have been run over the store
    clean,              \* no transient fault or shutdown so far
    snapshot,           \* the persisted state when the current pass began
    horizon_cut,        \* oldest blocks of the walk-backs that collected `horizon` blocks
    error,              \* the Err run() returned, if it returned one
    collected,          \* the blocks the walk-back of the current tick returned
    \* ---- storage
    db_bitcoin_blocks,  \* rows of model::BitcoinBlock
    db_transactions,    \* rows of model::Transaction (sBTC transactions)
    db_deposit_requests,\* rows of model::DepositRequest
    db_stacks_blocks,   \* stored Stacks block ids
    db_script_pubkeys,  \* get_signers_script_pubkeys
    \* ---- coordinator election, as evaluated by each signer
    usize_bytes,        \* signer -> pointer width its binary was built for
    el_tip,             \* bitcoin_chain_tip
    el_signer_set,      \* signer_public_keys
    el_result,          \* signer -> what coordinator_public_key returned
    \* ---- coordinator: the deposit-completion phase of a tick
    co_pc,              \* position in construct_and_sign_stacks_sbtc_response_transactions
    co_reqs,            \* swept deposit requests still to be handled
    co_fetched,         \* account.nonce as fetched from the Stacks port, if it was
    wallet_nonce,       \* SignerWallet nonce
    co_tx_nonce,        \* origin nonce of the transaction being signed
    co_accepted,        \* origin nonces of the accepted transactions, in order
    co_failed,          \* process_sign_request calls of the tick that returned Err
    co_swept,           \* number of swept deposits storage returned in the tick
    co_attempts,        \* positions of the deposits the loop has taken, in order
    \* ---- coordinator: TxCoordinatorEventLoop::run
    signal_stream,      \* signals waiting in the coordinator's signal stream
    signals_sent,       \* number of signals sent to the coordinator so far
    tk_pc,              \* position of the run() future
    tk_signal,          \* arrival number of the signal last taken from the stream
    is_epoch3,          \* TxCoordinatorEventLoop.is_epoch3
    signer_public_key,            \* the signer's own public key
    tk_width,           \* pointer width this signer's binary was built for
    tk_chain_tip,       \* bitcoin_chain_tip of the tick
    tk_signer_set,      \* signer_public_keys of the tick
    tk_aggregate_key,   \* aggregate key of the tick, 0 for None
    tk_elected,         \* the key elected for the tick's tip, once determined
    tk_effects,         \* what the tick has done: DKG, messages, transactions
    tk_error,           \* the Err process_new_blocks returned in the tick
    tk_dkg,             \* the DKG of the tick: its result and what the re-read gave
    tk_pox_info,        \* what get_pox_info answered in the tick, if it was asked
    tk_log,             \* starts and ends of ticks, in order
    tenure_completed,   \* TenureCompleted signals sent
    run_result,         \* what run() returned
    db_last_key_rotation,  \* storage: get_last_key_rotation
    db_latest_dkg_shares,  \* storage: get_latest_encrypted_dkg_shares
    \* ---- coordinator: one DKG or signing round
    ws_status,          \* position of drive_wsts_state_machine, or what it returned
    ws_tip,             \* bitcoin_chain_tip of the round
    ws_signer_set,      \* signer_set read when the round is driven
    ws_public_keys,     \* the state machine's config: signer id -> point
    ws_seen,            \* messages taken from the signal stream
    ws_fed,             \* packets passed to process_message
    ws_sent,            \* outbound packets sent
    ws_msg,             \* the message last taken from the stream
    ws_verdict,         \* where the loop body left that message
    ws_shutdown,        \* the round called signal_shutdown on the termination handle
    ws_txid,            \* txid of the round: the tag of the messages it sends
    ws_stream_txids,    \* the txid tags of the WSTS messages in the stream
    \* ---- coordinator: signing of one Stacks transaction
    st_status,          \* position of process_sign_request, or what it returned
    st_chain_tip,       \* chain_tip of the request
    st_txid,            \* req.txid
    st_signatures_required,  \* wallet.signatures_required()
    st_signatures,      \* multi_tx: the wallet keys that have signed
    st_sent,            \* the sign request was broadcast
    st_msg,             \* the signed message last taken from the stream
    st_submitted,       \* submit_tx was called
    st_shutdown,        \* the collection called signal_shutdown on the termination handle
    \* ---- coordinator: the sweep transactions of a tick
    sw_pc,              \* position in construct_and_sign_bitcoin_sbtc_transactions
    sw_pending,         \* pending_requests: the requests, in order
    sw_deposits,        \* those of them that are deposits
    sw_signer_utxo,     \* storage finds the signers' UTXO (get_signer_utxo)
    sw_package,         \* transaction_package: the requests of each transaction
    sw_tx,              \* index of the transaction being signed
    sw_input,           \* index of the input being signed, 0 for the signers' input
    sw_log,             \* what was sent to peers, Bitcoin and the registry, in order
    \* ---- coordinator: the fees of the sweep transactions in the mempool
    fe_pc,              \* position of assess_mempool_sweep_transaction_fees
    fe_spending,        \* find_mempool_transactions_spending_output, as returned
    fe_fees,            \* get_transaction_fee of each mempool transaction
    fe_descendants,     \* find_mempool_descendants of each transaction
    fe_root,            \* best_sweep_root_txid
    fe_result,          \* what the function returned
    \* ---- coordinator: the rotate-keys transaction of a tick
    rk_pc,              \* position of check_and_submit_rotate_key_transaction
    sbtc_contracts_deployed,  \* the coordinator's cached flag
    rk_is_deployed,     \* the node's answer: every contract is deployed
    rk_last_dkg,        \* get_latest_encrypted_dkg_shares
    rk_current_aggregate_key,  \* get_current_signers_aggregate_key, 0 for None
    rk_aggregate_key,   \* the aggregate key of the tick
    rk_sign_request     \* the rotate-keys sign request sent, if any

env_vars == <<chain, avail, horizon, stream>>
obs_vars == <<pc, pos, item, blocks, deposit_requests, signals, pass, clean, snapshot,
             horizon_cut, error, collected>>
db_vars == <<db_bitcoin_blocks, db_transactions, db_deposit_requests,
             db_stacks_blocks, db_script_pubkeys>>
el_vars == <<usize_bytes, el_tip, el_signer_set, el_result>>
co_vars == <<co_pc, co_reqs, co_fetched, wallet_nonce, co_tx_nonce, co_accepted,
             co_failed, co_swept, co_attempts>>
tk_vars == <<signal_stream, signals_sent, tk_pc, tk_signal, is_epoch3, signer_public_key, tk_width,
            tk_chain_tip, tk_signer_set, tk_aggregate_key, tk_elected, tk_effects,
            tk_error, tk_dkg, tk_pox_info, tk_log, tenure_completed, run_result, db_last_key_rotation,
            db_latest_dkg_shares>>
ws_vars == <<ws_status, ws_tip, ws_signer_set, ws_public_keys, ws_seen, ws_fed,
            ws_sent, ws_msg, ws_verdict, ws_shutdown, ws_txid, ws_stream_txids>>
st_vars == <<st_status, st_chain_tip, st_txid, st_signatures_required, st_signatures,
            st_sent, st_msg, st_submitted, st_shutdown>>
sw_vars == <<sw_pc, sw_pending, sw_deposits, sw_signer_utxo, sw_package, sw_tx, sw_input, sw_log>>
fe_vars == <<fe_pc, fe_spending, fe_fees, fe_descendants, fe_root, fe_result>>
rk_vars == <<rk_pc, sbtc_contracts_deployed, rk_is_deployed, rk_last_dkg,
            rk_current_aggregate_key, rk_aggregate_key, rk_sign_request>>
other_vars == <<el_vars, co_vars, tk_vars, ws_vars, st_vars, sw_vars, fe_vars, rk_vars>>
not_el_vars == <<env_vars, emily, obs_vars, db_vars, co_vars, tk_vars, ws_vars, st_vars, sw_vars, fe_vars, rk_vars>>
not_co_vars == <<env_vars, emily, obs_vars, db_vars, el_vars, tk_vars, ws_vars, st_vars, sw_vars, fe_vars, rk_vars>>
not_tk_vars == <<env_vars, emily, obs_vars, db_vars, el_vars, co_vars, ws_vars, st_vars, sw_vars, fe_vars, rk_vars>>
not_ws_vars == <<env_vars, emily, obs_vars, db_vars, el_vars, co_vars, tk_vars, st_vars, sw_vars, fe_vars, rk_vars>>
not_st_vars == <<env_vars, emily, obs_vars, db_vars, el_vars, co_vars, tk_vars, ws_vars, sw_vars, fe_vars, rk_vars>>
not_sw_vars == <<env_vars, emily, obs_vars, db_vars, el_vars, co_vars, tk_vars, ws_vars, st_vars, fe_vars, rk_vars>>
not_fe_vars == <<env_vars, emily, obs_vars, db_vars, el_vars, co_vars, tk_vars, ws_vars, st_vars, sw_vars, rk_vars>>
not_rk_vars == <<env_vars, emily, obs_vars, db_vars, el_vars, co_vars, tk_vars, ws_vars, st_vars, sw_vars, fe_vars>>
vars == <<env_vars, emily, obs_vars, db_vars, el_vars, co_vars, tk_vars, ws_vars, st_vars, sw_vars, fe_vars, rk_vars>>

(***************************************************************************)
(* The Bitcoin world the ports answer from.                                *)
(***************************************************************************)
\* The taproot scriptPubKey locking a deposit with the given deposit and
\* reclaim scripts.
DepositScriptPubKey(deposit_script, reclaim_script) ==
    100 + 10 * deposit_script + reclaim_script

\* The block a transaction is confirmed in.
TxBlock(t) == ((t - 1) % NumBlocks) + 1

\* tx.output: output 0 locks a deposit, output 1 pays some scriptPubKey.
TxOutputs(t) ==
    << [script_pubkey |-> DepositScriptPubKey(t, t)],
       [script_pubkey |-> t % (NumScripts + 1)] >>

RECURSIVE TxsOfBlock(_, _)
TxsOfBlock(b, t) ==
    IF t > NumTx THEN <<>>
    ELSE (IF TxBlock(t) = b THEN <<t>> ELSE <<>>) \o TxsOfBlock(b, t + 1)

\* block.txdata
BlockTxdata(b) == TxsOfBlock(b, 1)

\* BitcoinInteract::get_tx
GetTx(txid) == IF txid \in Txids THEN [some |-> TRUE, tx |-> txid]
               ELSE [some |-> FALSE, tx |-> 0]

\* BitcoinInteract::get_block
GetBlock(h) == IF h \in avail THEN [some |-> TRUE, prev_blockhash |-> chain[h]]
               ELSE [some |-> FALSE, prev_blockhash |-> NoHash]

(***************************************************************************)
(* Deposit requests.                                                       *)
(***************************************************************************)
CreateDepositRequest(t, d) ==
    [txid |-> t, vout |-> 0, deposit_script |-> d, reclaim_script |-> t]

\* The requests the registry may hold: for two transactions a request with
\* the right deposit script and one with an empty deposit script, and a
\* request for a transaction the node does not know.
Requests ==
    UNION { { CreateDepositRequest(t, EmptyScript), CreateDepositRequest(t, t) }
            : t \in {1, 2} }
        \cup { CreateDepositRequest(UnknownTxid, UnknownTxid) }

\* CreateDepositRequest::validate_tx
ValidateTx(req, tx) ==
    /\ req.vout + 1 <= Len(TxOutputs(tx))
    /\ req.deposit_script # EmptyScript
    /\ TxOutputs(tx)[req.vout + 1].script_pubkey
          = DepositScriptPubKey(req.deposit_script, req.reclaim_script)

\* DepositRequestValidator::validate: Ok iff the transaction is found and
\* the request validates against it.
Validate(req) ==
    /\ GetTx(req.txid).some
    /\ ValidateTx(req, GetTx(req.txid).tx)

\* The Deposit built from a validated request.
Deposit(req) == [txid |-> req.txid, vout |-> req.vout]

\* Mutant: the first request that fails validation ends the loop.
RECURSIVE LoadRequestsUntilInvalid(_, _)
LoadRequestsUntilInvalid(reqs, map) ==
    IF reqs = <<>> THEN map
    ELSE IF ~Validate(Head(reqs)) THEN map
    ELSE LoadRequestsUntilInvalid(Tail(reqs),
             [map EXCEPT ![Head(reqs).txid] = Append(@, Deposit(Head(reqs)))])

\* The loop of load_latest_deposit_requests over the polled requests.
RECURSIVE LoadRequests(_, _)
LoadRequests(reqs, map) ==
    IF reqs = <<>> THEN map
    ELSE LET req == Head(reqs)
             next == IF Validate(req)
                     THEN [map EXCEPT ![req.txid] = Append(@, Deposit(req))]
                     ELSE map
         IN LoadRequests(Tail(reqs), next)

EmptyMap == [t \in 1..UnknownTxid |-> <<>>]

(***************************************************************************)
(* Walk-back.                                                              *)
(***************************************************************************)
\* Mutant: no block is ever found in storage.
NeverProcessed(block_hash) == FALSE

\* BlockObserver::have_already_processed_block
have_already_processed_block(block_hash) ==
    \E row \in db_bitcoin_blocks : row.block_hash = block_hash

\* Mutant: the block found in storage is collected before the loop ends.
RECURSIVE WalkBackCollectsStored(_, _, _)
WalkBackCollectsStored(block_hash, n, acc) ==
    IF n = 0 THEN [ok |-> TRUE, blocks |-> acc]
    ELSE IF ~GetBlock(block_hash).some
         THEN [ok |-> FALSE, blocks |-> <<>>]
    ELSE IF have_already_processed_block(block_hash)
         THEN [ok |-> TRUE, blocks |-> Append(acc, block_hash)]
    ELSE WalkBackCollectsStored(GetBlock(block_hash).prev_blockhash, n - 1,
                                Append(acc, block_hash))

\* The loop of next_blocks_to_process: n iterations left, acc collected so
\* far (newest first).
RECURSIVE WalkBack(_, _, _)
WalkBack(block_hash, n, acc) ==
    IF n = 0 THEN [ok |-> TRUE, blocks |-> acc]
    ELSE IF have_already_processed_block(block_hash)
         THEN [ok |-> TRUE, blocks |-> acc]
    ELSE IF ~GetBlock(block_hash).some
         THEN [ok |-> FALSE, blocks |-> <<>>]
    ELSE WalkBack(GetBlock(block_hash).prev_blockhash, n - 1,
                  Append(acc, block_hash))

\* Mutant: the collected blocks are left newest first.
NoReverse(s) == s

\* blocks.reverse()
Reverse(s) == [i \in 1..Len(s) |-> s[Len(s) + 1 - i]]

\* Mutant: a block the node does not know ends the walk-back like a stored
\* block does.
RECURSIVE WalkBackUntilMissing(_, _, _)
WalkBackUntilMissing(block_hash, n, acc) ==
    IF n = 0 THEN acc
    ELSE IF have_already_processed_block(block_hash) \/ ~GetBlock(block_hash).some
         THEN acc
    ELSE WalkBackUntilMissing(GetBlock(block_hash).prev_blockhash, n - 1,
                              Append(acc, block_hash))

NextBlocksStopAtMissing(block_hash) ==
    [ok |-> TRUE, blocks |-> Reverse(WalkBackUntilMissing(block_hash, horizon, <<>>))]

\* Mutant: the walk-back collects one block fewer than the horizon.
NextBlocksOneShort(block_hash) ==
    LET w == WalkBack(block_hash, horizon - 1, <<>>)
    IN [ok |-> w.ok, blocks |-> Reverse(w.blocks)]

\* BlockObserver::next_blocks_to_process
next_blocks_to_process(block_hash) ==
    LET w == WalkBack(block_hash, horizon, <<>>)
    IN [ok |-> w.ok, blocks |-> Reverse(w.blocks)]

(***************************************************************************)
(* Persisted rows.                                                         *)
(***************************************************************************)
\* model::BitcoinBlock built by write_bitcoin_block
BitcoinBlockRow(b) == [block_hash |-> b, parent_hash |-> GetBlock(b).prev_blockhash]

\* Mutant: only the first output is looked at.
FirstOutputPaysSigners(tx, signer_script_pubkeys) ==
    TxOutputs(tx)[1].script_pubkey \in signer_script_pubkeys

\* The filter of extract_sbtc_transactions: some output pays a stored
\* signer scriptPubKey.
PaysSigners(tx, signer_script_pubkeys) ==
    \E i \in 1..Len(TxOutputs(tx)) :
        TxOutputs(tx)[i].script_pubkey \in signer_script_pubkeys

\* The rows extract_sbtc_transactions writes for a block.
SbtcTransactions(block_hash, txs) ==
    { [txid |-> txs[i], block_hash |-> block_hash] :
        i \in { j \in 1..Len(txs) : PaysSigners(txs[j], db_script_pubkeys) } }

\* The txids of a transaction slice.
TxidsOf(txs) == { txs[i] : i \in 1..Len(txs) }

\* The rows extract_deposit_requests collects: every deposit held under
\* the txid of one of the transactions.
DrainedDeposits(txs, map) ==
    UNION { { map[t][i] : i \in 1..Len(map[t]) } : t \in TxidsOf(txs) }

\* Mutant: the whole map is drained.
RemoveAllKeys(txs, map) == [t \in DOMAIN map |-> <<>>]

\* The map after extract_deposit_requests removed those keys.
RemoveKeys(txs, map) ==
    [t \in DOMAIN map |-> IF t \in TxidsOf(txs) THEN <<>> ELSE map[t]]

\* fetch_unknown_ancestors: the Stacks blocks up to the tenure tip that are
\* not in storage.
NumStacksBlocks == 2
UnknownStacksAncestors == (1..NumStacksBlocks) \ db_stacks_blocks

Persisted == [bitcoin_blocks |-> db_bitcoin_blocks,
              transactions |-> db_transactions,
              deposit_requests |-> db_deposit_requests]

(***************************************************************************)
(* Coordinator election.                                                   *)
(***************************************************************************)
NumSigners == 2
NumKeys == 3
NumTips == 4
Signers == 1..NumSigners
PublicKeys == 1..NumKeys
TipHashes == 1..NumTips
\* size_of::<usize>() on the targets the signer supports.
PointerWidths == {4, 8}

\* Sha256 of the chain tip: byte i (1-based) of the digest.  A fixed mixing
\* function stands for the hash.
DigestByte(tip, i) == (tip * 151 + i * i * 67 + tip * i * 29) % 256

\* digest.first_chunk::<N>()
FirstChunk(tip, n) == [i \in 1..n |-> DigestByte(tip, i)]

\* usize::from_be_bytes(bytes) % m, reduced modulo m after every byte to
\* stay within the checker's integers.
RECURSIVE FromBeBytesMod(_, _, _)
FromBeBytesMod(bytes, m, acc) ==
    IF bytes = <<>> THEN acc
    ELSE FromBeBytesMod(Tail(bytes), m, (acc * 256 + Head(bytes)) % m)

Min(S) == CHOOSE x \in S : \A y \in S : x <= y

\* BTreeSet::iter().nth(k)
RECURSIVE Nth(_, _)
Nth(S, k) == IF k = 0 THEN Min(S) ELSE Nth(S \ {Min(S)}, k - 1)

\* Option<PublicKey>
SomeKey(k) == [some |-> TRUE, key |-> k]
\* The signer has not evaluated the election for the tip yet.
NotEvaluated == [some |-> FALSE, key |-> 0]

\* coordinator_public_key, in a binary whose usize has `width` bytes.
coordinator_public_key(bitcoin_chain_tip, signer_public_keys, width) ==
    LET num_signers == Cardinality(signer_public_keys)
        index_mod == FromBeBytesMod(FirstChunk(bitcoin_chain_tip, width),
                                    num_signers, 0)
    IN SomeKey(Nth(signer_public_keys, index_mod))

given_key_is_coordinator(pub_key, bitcoin_chain_tip, signer_public_keys, width) ==
    coordinator_public_key(bitcoin_chain_tip, signer_public_keys, width)
        = SomeKey(pub_key)


InitElectionInputs ==
    /\ el_tip \in TipHashes
    /\ el_signer_set \in (SUBSET PublicKeys) \ {{}}
    /\ el_result = [s \in Signers |-> NotEvaluated]

InitElection ==
    /\ usize_bytes \in [Signers -> PointerWidths]
    /\ InitElectionInputs

InitElectionIdle ==
    /\ usize_bytes = [s \in Signers |-> 8]
    /\ el_tip = 1
    /\ el_signer_set = PublicKeys
    /\ el_result = [s \in Signers |-> NotEvaluated]

\* Signer s determines the coordinator for the tip.
Elect(s) ==
    /\ el_result[s] = NotEvaluated
    /\ el_result' = [el_result EXCEPT ![s] =
           coordinator_public_key(el_tip, el_signer_set, usize_bytes[s])]
    /\ UNCHANGED <<not_el_vars, usize_bytes, el_tip, el_signer_set>>

\* A new tip is observed (and the signer set may have rotated).
NewTip ==
    /\ \A s \in Signers : el_result[s] # NotEvaluated
    /\ el_tip' \in TipHashes
    /\ el_signer_set' \in (SUBSET PublicKeys) \ {{}}
    /\ el_result' = [s \in Signers |-> NotEvaluated]
    /\ UNCHANGED <<not_el_vars, usize_bytes>>

(***************************************************************************)
(* Coordinator: construct_and_sign_stacks_sbtc_response_transactions.      *)
(***************************************************************************)
MaxSwept == 3
MaxNonce == 2

\* u64::saturating_sub(n, 1)
SaturatingSub1(n) == IF n = 0 THEN 0 ELSE n - 1

\* MultisigTx::new_tx: the transaction takes the wallet's nonce and the
\* wallet's nonce is incremented.
MultisigTxNewTx(nonce) == [origin_nonce |-> nonce, wallet_nonce |-> nonce + 1]

\* Mutant: a failed transaction gives back two nonces.
RollbackTwoNonces(nonce) == SaturatingSub1(SaturatingSub1(nonce))

\* Mutant: the nonce of a failed transaction is not given back.
NoRollback(nonce) == nonce

\* The Err arm of process_sign_request's match in the loop.
RollbackNonce(nonce) == SaturatingSub1(nonce)

\* `for req in deposit_requests`: the position, in the list storage
\* returned, of the request the loop takes when `remaining` are left.
NextRequest(swept, remaining) == swept - remaining + 1

\* Mutant: a request that fails ends the phase with the error.
ReturnErrAfterFailedRequest(step) == "failed"

\* `continue` after a failed construction and the end of the Err arm of
\* process_sign_request's match: the loop goes on with the next request.
AfterFailedRequest(step) == "construct"

\* Option<u64>: the nonce get_account returned in this tick.
NoNonce == [some |-> FALSE, nonce |-> 0]
SomeNonce(n) == [some |-> TRUE, nonce |-> n]

InitCoordinator ==
    /\ co_pc = "start"
    /\ co_reqs = 0
    /\ co_fetched = NoNonce
    /\ wallet_nonce = 0
    /\ co_tx_nonce = 0
    /\ co_accepted = <<>>
    /\ co_failed = 0
    /\ co_swept = 0
    /\ co_attempts = <<>>

\* SignerWallet::load gives a fresh wallet and get_swept_deposit_requests
\* returns the swept deposits of the tip; with none the phase returns Ok.
GetSweptDepositRequests ==
    /\ co_pc = "start"
    /\ \E n \in 0..MaxSwept :
          /\ co_swept' = n
          /\ co_reqs' = n
          /\ co_pc' = IF n = 0 THEN "done" ELSE "get_account"
    /\ co_fetched' = NoNonce
    /\ wallet_nonce' = 0
    /\ co_accepted' = <<>>
    /\ co_failed' = 0
    /\ co_attempts' = <<>>
    /\ UNCHANGED <<not_co_vars, co_tx_nonce>>

\* SignerWallet::load, get_swept_deposit_requests or get_account fails.
PhaseFails ==
    /\ co_pc \in {"start", "get_account"}
    /\ co_pc' = "failed"
    /\ UNCHANGED <<not_co_vars, co_swept, co_attempts, co_reqs, co_fetched, wallet_nonce, co_tx_nonce,
                   co_accepted, co_failed>>

\* stacks.get_account(..) and wallet.set_nonce(account.nonce)
GetAccount ==
    /\ co_pc = "get_account"
    /\ \E n \in 0..MaxNonce :
          /\ co_fetched' = SomeNonce(n)
          /\ wallet_nonce' = n
    /\ co_pc' = "construct"
    /\ UNCHANGED <<not_co_vars, co_swept, co_attempts, co_reqs, co_tx_nonce, co_accepted, co_failed>>

\* The loop is over: the phase returns Ok.
PhaseDone ==
    /\ co_pc = "construct"
    /\ co_reqs = 0
    /\ co_pc' = "done"
    /\ UNCHANGED <<not_co_vars, co_swept, co_attempts, co_reqs, co_fetched, wallet_nonce, co_tx_nonce,
                   co_accepted, co_failed>>

\* construct_deposit_stacks_sign_request fails (get_tx_info, the fee
\* assessment or estimate_fees): `continue`.
ConstructFails ==
    /\ co_pc = "construct"
    /\ co_reqs > 0
    /\ co_attempts' = Append(co_attempts, NextRequest(co_swept, co_reqs))
    /\ co_reqs' = co_reqs - 1
    /\ co_pc' = AfterFailedRequest(co_pc)
    /\ UNCHANGED <<not_co_vars, co_swept, co_fetched, wallet_nonce, co_tx_nonce,
                   co_accepted, co_failed>>

\* construct_deposit_stacks_sign_request succeeds: MultisigTx::new_tx.
ConstructSignRequest ==
    /\ co_pc = "construct"
    /\ co_reqs > 0
    /\ co_tx_nonce' = MultisigTxNewTx(wallet_nonce).origin_nonce
    /\ wallet_nonce' = MultisigTxNewTx(wallet_nonce).wallet_nonce
    /\ co_pc' = "sign"
    /\ co_attempts' = Append(co_attempts, NextRequest(co_swept, co_reqs))
    /\ UNCHANGED <<not_co_vars, co_swept, co_reqs, co_fetched, co_accepted, co_failed>>

\* process_sign_request: sign_stacks_transaction collects the signatures.
SignStacksTransaction ==
    /\ co_pc = "sign"
    /\ co_pc' = "submit"
    /\ UNCHANGED <<not_co_vars, co_swept, co_attempts, co_reqs, co_fetched, wallet_nonce, co_tx_nonce,
                   co_accepted, co_failed>>

\* process_sign_request returns Err: the signing round failed or timed out.
SignFails ==
    /\ co_pc = "sign"
    /\ wallet_nonce' = RollbackNonce(wallet_nonce)
    /\ co_reqs' = co_reqs - 1
    /\ co_pc' = AfterFailedRequest(co_pc)
    /\ co_failed' = co_failed + 1
    /\ UNCHANGED <<not_co_vars, co_swept, co_attempts, co_fetched, co_tx_nonce, co_accepted>>

\* submit_tx answers Acceptance(txid).
SubmitAccepted ==
    /\ co_pc = "submit"
    /\ co_accepted' = Append(co_accepted, co_tx_nonce)
    /\ co_reqs' = co_reqs - 1
    /\ co_pc' = "construct"
    /\ UNCHANGED <<not_co_vars, co_swept, co_attempts, co_fetched, wallet_nonce, co_tx_nonce, co_failed>>

\* submit_tx answers Rejection(err) or fails.
SubmitFails ==
    /\ co_pc = "submit"
    /\ wallet_nonce' = RollbackNonce(wallet_nonce)
    /\ co_reqs' = co_reqs - 1
    /\ co_pc' = AfterFailedRequest(co_pc)
    /\ co_failed' = co_failed + 1
    /\ UNCHANGED <<not_co_vars, co_swept, co_attempts, co_fetched, co_tx_nonce, co_accepted>>

\* The next tick reaches the phase.
NextTick ==
    /\ co_pc \in {"done", "failed"}
    /\ co_pc' = "start"
    /\ UNCHANGED <<not_co_vars, co_swept, co_attempts, co_reqs, co_fetched, wallet_nonce, co_tx_nonce,
                   co_accepted, co_failed>>

(***************************************************************************)
(* Coordinator: TxCoordinatorEventLoop::run and process_new_blocks.        *)
(***************************************************************************)
MaxSignals == 3
MaxBurnHeight == 2
NumAggregateKeys == 2

AggregateKeys == 1..NumAggregateKeys
NoRow == [some |-> FALSE, aggregate_key |-> 0, signer_set |-> {}]
Row(k, set) == [some |-> TRUE, aggregate_key |-> k, signer_set |-> set]

\* config().signer.bootstrap_signing_set()
bootstrap_signing_set == PublicKeys

\* The items run_loop_message_filter lets through.
SignalKinds == {"NewRequestsHandled", "Shutdown"}

\* The positions of process_new_blocks, in the order of the code.
TickSteps == <<"is_epoch3", "chain_tip", "signer_set", "is_coordinator", "dkg",
               "deploy", "rotate_key", "sweep", "stacks_response">>

InTick == tk_pc \in { TickSteps[i] : i \in 1..Len(TickSteps) }

\* Mutant: the stored DKG shares are preferred to the last key rotation.
SharesBeforeKeyRotation ==
    IF db_latest_dkg_shares.some THEN db_latest_dkg_shares
    ELSE IF db_last_key_rotation.some THEN db_last_key_rotation
    ELSE [some |-> FALSE, aggregate_key |-> 0, signer_set |-> bootstrap_signing_set]

\* get_signer_set_and_aggregate_key: the last key rotation, else the latest
\* DKG shares, else no key and the bootstrap signing set.
get_signer_set_and_aggregate_key ==
    IF db_last_key_rotation.some THEN db_last_key_rotation
    ELSE IF db_latest_dkg_shares.some THEN db_latest_dkg_shares
    ELSE [some |-> FALSE, aggregate_key |-> 0, signer_set |-> bootstrap_signing_set]

\* RPCPoxInfoData as is_epoch3 reads it: nakamoto_start_height() (0 for
\* None) and current_burnchain_block_height.
PoxInfos == [nakamoto_start_height : 0..MaxBurnHeight,
             current_burnchain_block_height : 1..MaxBurnHeight]

\* get_pox_info was not called in the tick.
NoPoxInfo == [nakamoto_start_height |-> 0, current_burnchain_block_height |-> 0]

\* Mutant: the start height itself counts as passed.
AtNakamotoStart(pox_info) ==
    /\ pox_info.nakamoto_start_height # 0
    /\ pox_info.current_burnchain_block_height >= pox_info.nakamoto_start_height

\* is_epoch3: false without a start height, else current > start.
PastNakamotoStart(pox_info) ==
    /\ pox_info.nakamoto_start_height # 0
    /\ pox_info.current_burnchain_block_height > pox_info.nakamoto_start_height

\* The effect of a tick: stacks.get_account(wallet.address()) was called in
\* the given phase.
GetAccountIn(phase) ==
    CASE phase = "deploy" -> "get_account in deploy"
      [] phase = "rotate_key" -> "get_account in rotate_key"
      [] phase = "stacks_response" -> "get_account in stacks_response"

\* The DKG of a tick: none yet, or its result, the key storage held when
\* the key was read again, and whether that read succeeded.
NoDkg == [done |-> FALSE, result |-> 0, read_ok |-> TRUE, stored |-> 0]

\* get_signer_set_and_aggregate_key(..).await after DKG: Err, or the
\* Option<PublicKey> of the result (0 for None).
ReRead(read_ok, stored) == [ok |-> read_ok, key |-> stored]

\* Mutant: the key is not read again after DKG.
DkgResultOnly(dkg_result, reread) == dkg_result

\* .ok().and_then(|res| res.0).unwrap_or(dkg_result)
AggregateKeyAfterDkg(dkg_result, reread) ==
    IF reread.ok /\ reread.key # 0 THEN reread.key ELSE dkg_result

\* Mutant: every signer takes itself for the coordinator.
AlwaysCoordinator(key, bitcoin_chain_tip, signer_public_keys) == TRUE

\* TxCoordinatorEventLoop::is_coordinator
is_coordinator(key, bitcoin_chain_tip, signer_public_keys) ==
    given_key_is_coordinator(key, bitcoin_chain_tip, signer_public_keys, tk_width)

\* Mutant: the newest queued signal is taken first.
NewestSignal(queue) == queue[Len(queue)]

\* signal_stream.next(): the oldest queued signal.
NextSignal(queue) == Head(queue)

\* The stream without the signal just taken.
RestOfStream(queue, sig) ==
    SelectSeq(queue, LAMBDA s : s.id # sig.id)

\* Mutant: an error of kind Shutdown or ChainInconsistency leaves the loop.
LoopAfterErrorPropagating(e) ==
    IF e \in {"SignerShutdown", "NoChainTip", "NoStacksChainTip", "MissingSignerUtxo"}
    THEN "returned" ELSE "tenure_completed"

\* `if let Err(error) = self.process_new_blocks().await { log }`: whatever
\* the error, the loop goes on to signal TenureCompleted.
LoopAfterError(e) == "tenure_completed"

InitTick ==
    /\ signal_stream = <<>>
    /\ signals_sent = 0
    /\ tk_pc = "wait"
    /\ tk_signal = 0
    /\ is_epoch3 = FALSE
    /\ tk_chain_tip = 0
    /\ tk_signer_set = {}
    /\ tk_aggregate_key = 0
    /\ tk_elected = NotEvaluated
    /\ tk_effects = {}
    /\ tk_error = "None"
    /\ tk_dkg = NoDkg
    /\ tk_pox_info = NoPoxInfo
    /\ tk_log = <<>>
    /\ tenure_completed = 0
    /\ run_result = "Running"

InitTickIdle ==
    /\ InitTick
    /\ signer_public_key = 1
    /\ tk_width = 8
    /\ db_last_key_rotation = NoRow
    /\ db_latest_dkg_shares = NoRow

InitTickInputs ==
    /\ InitTick
    /\ signer_public_key \in PublicKeys
    /\ tk_width \in PointerWidths
    /\ db_last_key_rotation \in {NoRow, Row(1, PublicKeys)}
    /\ db_latest_dkg_shares \in {NoRow, Row(2, PublicKeys \ {1})}

\* Another task signals the coordinator; the signal waits in the stream.
SignalArrives ==
    /\ run_result = "Running"
    /\ signals_sent < MaxSignals
    /\ \E k \in SignalKinds :
          signal_stream' = Append(signal_stream, [kind |-> k, id |-> signals_sent + 1])
    /\ signals_sent' = signals_sent + 1
    /\ UNCHANGED <<not_tk_vars, tk_dkg, tk_pox_info, tk_pc, tk_signal, is_epoch3, tk_chain_tip, tk_signer_set,
                   tk_aggregate_key, tk_elected, tk_effects, tk_error, tk_log,
                   tenure_completed, run_result, signer_public_key, tk_width, db_last_key_rotation,
                   db_latest_dkg_shares>>

\* signal_stream.next() yields a signal: Shutdown breaks the loop and run
\* returns Ok, NewRequestsHandled starts process_new_blocks.
RunNextSignal ==
    /\ tk_pc = "wait"
    /\ signal_stream # <<>>
    /\ LET sig == NextSignal(signal_stream)
       IN /\ signal_stream' = RestOfStream(signal_stream, sig)
          /\ tk_signal' = sig.id
          /\ IF sig.kind = "Shutdown"
             THEN /\ tk_pc' = "returned"
                  /\ run_result' = "Ok"
                  /\ UNCHANGED <<tk_chain_tip, tk_signer_set, tk_aggregate_key, tk_elected,
                                 tk_effects, tk_error, tk_dkg, tk_pox_info, tk_log>>
             ELSE /\ tk_pc' = "is_epoch3"
                  /\ tk_chain_tip' = 0
                  /\ tk_signer_set' = {}
                  /\ tk_aggregate_key' = 0
                  /\ tk_elected' = NotEvaluated
                  /\ tk_effects' = {}
                  /\ tk_error' = "None"
                  /\ tk_dkg' = NoDkg
                  /\ tk_pox_info' = NoPoxInfo
                  /\ tk_log' = Append(tk_log, [event |-> "start", id |-> sig.id,
                                            failed |-> FALSE])
                  /\ UNCHANGED run_result
    /\ UNCHANGED <<not_tk_vars, signals_sent, is_epoch3, tenure_completed, signer_public_key,
                   tk_width, db_last_key_rotation, db_latest_dkg_shares>>

\* signal_stream.next() returns None: the loop ends and run returns Ok.
RunStreamCloses ==
    /\ tk_pc = "wait"
    /\ signal_stream = <<>>
    /\ tk_pc' = "returned"
    /\ run_result' = "Ok"
    /\ UNCHANGED <<not_tk_vars, tk_dkg, tk_pox_info, signal_stream, signals_sent, tk_signal, is_epoch3,
                   tk_chain_tip, tk_signer_set, tk_aggregate_key, tk_elected, tk_effects,
                   tk_error, tk_log, tenure_completed, signer_public_key, tk_width,
                   db_last_key_rotation, db_latest_dkg_shares>>

\* process_new_blocks returns Err(e) after the effects done so far.
TickErr(e, effects) ==
    /\ tk_error' = e
    /\ tk_effects' = tk_effects \cup effects
    /\ tk_pc' = LoopAfterError(e)
    /\ run_result' = IF LoopAfterError(e) = "returned" THEN e ELSE run_result

\* Mutant: a tick that returns Ok goes back to waiting for a signal.
TickOkWithoutSignal(effects) ==
    /\ tk_effects' = tk_effects \cup effects
    /\ tk_pc' = "wait"
    /\ UNCHANGED <<tk_error, run_result>>

\* process_new_blocks returns Ok(()).
TickOk(effects) ==
    /\ tk_effects' = tk_effects \cup effects
    /\ tk_pc' = "tenure_completed"
    /\ UNCHANGED <<tk_error, run_result>>

\* process_new_blocks goes on to the next call.
TickGoesOn(step, effects) ==
    /\ tk_effects' = tk_effects \cup effects
    /\ tk_pc' = step
    /\ UNCHANGED <<tk_error, run_result>>

\* is_epoch3: answered from the cached flag, else from get_pox_info.
IsEpoch3 ==
    /\ tk_pc = "is_epoch3"
    /\ IF is_epoch3
       THEN /\ TickGoesOn("chain_tip", {})
            /\ UNCHANGED <<is_epoch3, tk_pox_info>>
       ELSE \/ /\ TickErr("StacksRpc", {})
               /\ UNCHANGED <<is_epoch3, tk_pox_info>>
            \/ \E pox_info \in PoxInfos :
                  /\ tk_pox_info' = pox_info
                  /\ IF PastNakamotoStart(pox_info)
                     THEN /\ is_epoch3' = TRUE
                          /\ TickGoesOn("chain_tip", {})
                     ELSE /\ UNCHANGED is_epoch3
                          /\ TickOk({})
    /\ UNCHANGED <<not_tk_vars, tk_dkg, signal_stream, signals_sent, tk_signal, tk_chain_tip,
                   tk_signer_set, tk_aggregate_key, tk_elected, tk_log, tenure_completed,
                   signer_public_key, tk_width, db_last_key_rotation, db_latest_dkg_shares>>

\* get_bitcoin_canonical_chain_tip().await?.ok_or(Error::NoChainTip)?
GetBitcoinCanonicalChainTip ==
    /\ tk_pc = "chain_tip"
    /\ \/ /\ \E e \in {"Storage", "NoChainTip"} : TickErr(e, {})
          /\ UNCHANGED tk_chain_tip
       \/ /\ TickGoesOn("signer_set", {})
          /\ tk_chain_tip' \in TipHashes
    /\ UNCHANGED <<not_tk_vars, tk_dkg, tk_pox_info, signal_stream, signals_sent, tk_signal, is_epoch3,
                   tk_signer_set, tk_aggregate_key, tk_elected, tk_log, tenure_completed,
                   signer_public_key, tk_width, db_last_key_rotation, db_latest_dkg_shares>>

\* get_signer_set_and_aggregate_key(&bitcoin_chain_tip).await?
GetSignerSetAndAggregateKey ==
    /\ tk_pc = "signer_set"
    /\ \/ /\ TickErr("Storage", {})
          /\ UNCHANGED <<tk_signer_set, tk_aggregate_key>>
       \/ /\ TickGoesOn("is_coordinator", {})
          /\ tk_signer_set' = get_signer_set_and_aggregate_key.signer_set
          /\ tk_aggregate_key' = get_signer_set_and_aggregate_key.aggregate_key
    /\ UNCHANGED <<not_tk_vars, tk_dkg, tk_pox_info, signal_stream, signals_sent, tk_signal, is_epoch3,
                   tk_chain_tip, tk_elected, tk_log, tenure_completed, signer_public_key, tk_width,
                   db_last_key_rotation, db_latest_dkg_shares>>

\* if !self.is_coordinator(..) { return Ok(()) }
IsCoordinator ==
    /\ tk_pc = "is_coordinator"
    /\ tk_elected' = coordinator_public_key(tk_chain_tip, tk_signer_set, tk_width)
    /\ IF is_coordinator(signer_public_key, tk_chain_tip, tk_signer_set)
       THEN TickGoesOn(IF tk_aggregate_key = 0 THEN "dkg" ELSE "deploy", {})
       ELSE TickOk({})
    /\ UNCHANGED <<not_tk_vars, tk_dkg, tk_pox_info, signal_stream, signals_sent, tk_signal, is_epoch3,
                   tk_chain_tip, tk_signer_set, tk_aggregate_key, tk_log, tenure_completed,
                   signer_public_key, tk_width, db_last_key_rotation, db_latest_dkg_shares>>

\* coordinate_dkg, then the aggregate key re-read from storage.  The signer
\* task stores the shares of a DKG round it took part in, of this round or
\* of a concurrent one, at a time of its own.
CoordinateDkg ==
    /\ tk_pc = "dkg"
    /\ UNCHANGED db_last_key_rotation
    /\ \/ /\ TickErr("Storage", {})
          /\ UNCHANGED <<tk_aggregate_key, tk_dkg, db_latest_dkg_shares>>
       \/ /\ \E e \in {"Network", "CoordinatorTimeout", "SignerShutdown"} :
                TickErr(e, {"dkg", "message"})
          /\ UNCHANGED <<tk_aggregate_key, tk_dkg, db_latest_dkg_shares>>
       \/ \E dkg_result \in AggregateKeys, read_ok \in BOOLEAN :
            /\ TickGoesOn("deploy", {"dkg", "message"})
            /\ db_latest_dkg_shares' \in
                  {db_latest_dkg_shares}
                      \cup { Row(k, tk_signer_set) : k \in AggregateKeys }
            /\ LET stored == get_signer_set_and_aggregate_key'.aggregate_key
               IN /\ tk_aggregate_key' =
                        AggregateKeyAfterDkg(dkg_result, ReRead(read_ok, stored))
                  /\ tk_dkg' = [done |-> TRUE, result |-> dkg_result,
                               read_ok |-> read_ok, stored |-> stored]
    /\ UNCHANGED <<not_tk_vars, tk_pox_info, signal_stream, signals_sent, tk_signal,
                   is_epoch3, tk_chain_tip, tk_signer_set, tk_elected, tk_log,
                   tenure_completed, signer_public_key, tk_width>>

\* deploy_smart_contracts: nothing when all are deployed, else a wallet
\* with the nonce of get_account, and a sign request and a submission per
\* missing contract.
DeploySmartContracts ==
    /\ tk_pc = "deploy"
    /\ \/ TickGoesOn("rotate_key", {})
       \/ TickGoesOn("rotate_key", {GetAccountIn("deploy"), "message", "stacks_tx"})
       \/ \E e \in {"Storage", "StacksRpc"} : TickErr(e, {})
       \/ TickErr("StacksRpc", {GetAccountIn("deploy")})
       \/ \E e \in {"SignatureTimeout", "SignerShutdown"} :
             TickErr(e, {GetAccountIn("deploy"), "message"})
    /\ UNCHANGED <<not_tk_vars, tk_dkg, tk_pox_info, signal_stream, signals_sent, tk_signal, is_epoch3,
                   tk_chain_tip, tk_signer_set, tk_aggregate_key, tk_elected, tk_log,
                   tenure_completed, signer_public_key, tk_width, db_last_key_rotation,
                   db_latest_dkg_shares>>

\* check_and_submit_rotate_key_transaction: nothing while a contract is
\* missing, without DKG shares or when the key on chain is the latest,
\* else a wallet with the nonce of get_account and a rotate-keys
\* transaction.
CheckAndSubmitRotateKeyTransaction ==
    /\ tk_pc = "rotate_key"
    /\ \/ TickGoesOn("sweep", {})
       \/ TickGoesOn("sweep", {GetAccountIn("rotate_key"), "message", "stacks_tx"})
       \/ \E e \in {"Storage", "StacksRpc"} : TickErr(e, {})
       \/ TickErr("StacksRpc", {GetAccountIn("rotate_key")})
       \/ \E e \in {"SignatureTimeout", "SignerShutdown"} :
             TickErr(e, {GetAccountIn("rotate_key"), "message"})
    /\ UNCHANGED <<not_tk_vars, tk_dkg, tk_pox_info, signal_stream, signals_sent, tk_signal, is_epoch3,
                   tk_chain_tip, tk_signer_set, tk_aggregate_key, tk_elected, tk_log,
                   tenure_completed, signer_public_key, tk_width, db_last_key_rotation,
                   db_latest_dkg_shares>>

\* construct_and_sign_bitcoin_sbtc_transactions
ConstructAndSignBitcoinSbtcTransactions ==
    /\ tk_pc = "sweep"
    /\ \/ TickGoesOn("stacks_response", {})
       \/ TickGoesOn("stacks_response", {"message", "bitcoin_tx"})
       \/ \E e \in {"Storage", "NoStacksChainTip", "MissingSignerUtxo"} : TickErr(e, {})
       \/ \E e \in {"CoordinatorTimeout", "SignerShutdown", "BitcoinRpc"} :
             TickErr(e, {"message"})
       \/ TickErr("Emily", {"message", "bitcoin_tx"})
    /\ UNCHANGED <<not_tk_vars, tk_dkg, tk_pox_info, signal_stream, signals_sent, tk_signal, is_epoch3,
                   tk_chain_tip, tk_signer_set, tk_aggregate_key, tk_elected, tk_log,
                   tenure_completed, signer_public_key, tk_width, db_last_key_rotation,
                   db_latest_dkg_shares>>

\* construct_and_sign_stacks_sbtc_response_transactions: nothing without
\* swept deposits, else the nonce of get_account and a transaction per
\* deposit; the failures of single requests are logged, those of the phase
\* are returned.
ConstructAndSignStacksSbtcResponseTransactions ==
    /\ tk_pc = "stacks_response"
    /\ \/ TickOk({})
       \/ TickOk({GetAccountIn("stacks_response")})
       \/ TickOk({GetAccountIn("stacks_response"), "message"})
       \/ TickOk({GetAccountIn("stacks_response"), "message", "stacks_tx"})
       \/ \E e \in {"Storage", "StacksRpc"} : TickErr(e, {})
       \/ TickErr("StacksRpc", {GetAccountIn("stacks_response")})
    /\ UNCHANGED <<not_tk_vars, tk_dkg, tk_pox_info, signal_stream, signals_sent, tk_signal, is_epoch3,
                   tk_chain_tip, tk_signer_set, tk_aggregate_key, tk_elected, tk_log,
                   tenure_completed, signer_public_key, tk_width, db_last_key_rotation,
                   db_latest_dkg_shares>>

\* self.context.signal(TenureCompleted)?: the tick is over; a failed send
\* is returned by run.
SignalTenureCompleted ==
    /\ tk_pc = "tenure_completed"
    /\ tk_log' = Append(tk_log, [event |-> "end", id |-> tk_signal,
                              failed |-> tk_error # "None"])
    /\ \/ /\ tenure_completed' = tenure_completed + 1
          /\ tk_pc' = "wait"
          /\ UNCHANGED run_result
       \/ /\ tk_pc' = "returned"
          /\ run_result' = "Signal"
          /\ UNCHANGED tenure_completed
    /\ UNCHANGED <<not_tk_vars, tk_dkg, tk_pox_info, signal_stream, signals_sent, tk_signal, is_epoch3,
                   tk_chain_tip, tk_signer_set, tk_aggregate_key, tk_elected, tk_effects,
                   tk_error, signer_public_key, tk_width, db_last_key_rotation,
                   db_latest_dkg_shares>>

(***************************************************************************)
(* Coordinator: drive_wsts_state_machine and authenticate_message.         *)
(***************************************************************************)
MaxInbound == 2

\* Signer ids a packet can carry; the largest one is registered for no
\* signer set.
SignerIds == 0..NumKeys

\* wsts::net::Message variants sent by the coordinator of a round.
CoordinatorPackets == {"DkgBegin", "DkgPrivateBegin", "DkgEndBegin",
                       "NonceRequest", "SignatureShareRequest"}

\* wsts::net::Message variants sent by a signer; they carry a signer_id.
SignerPackets == {"DkgPublicShares", "DkgPrivateShares", "DkgEnd",
                  "NonceResponse", "SignatureShareResponse"}

\* wsts::net::Packet
Packets ==
    [msg : CoordinatorPackets] \cup [msg : SignerPackets, signer_id : SignerIds]

\* message::Payload: a WSTS message, tagged with the txid of its round, or
\* any other payload of the signers.
Payloads ==
    { [kind |-> "WstsMessage", txid |-> t, inner |-> p] :
        t \in ws_stream_txids, p \in Packets }
        \cup { [kind |-> "StacksTransactionSignature"] }

\* A chain tip other than the given one.
OtherTip(tip) == (tip % NumTips) + 1

\* Signed<SignerMessage>; `verifies` is what msg.verify() returns.
SignedMessages(tip) ==
    [bitcoin_chain_tip : {tip, OtherTip(tip)},
     signer_pub_key : PublicKeys,
     verifies : BOOLEAN,
     payload : Payloads]

NoMessage == [payload |-> [kind |-> "None"]]

\* p256k1::point::Point::from(public_key)
PointFrom(public_key) == <<"point", public_key>>

\* The state machine's config: signer id -> point of the key, ids given in
\* the order of the signer set.
SignerPublicKeys(signer_set) ==
    [id \in 0..(Cardinality(signer_set) - 1) |-> PointFrom(Nth(signer_set, id))]

\* The closure check_signer_public_key of authenticate_message.
check_signer_public_key(public_keys, public_key_point, signer_id) ==
    IF signer_id \notin DOMAIN public_keys THEN FALSE
    ELSE IF public_key_point # public_keys[signer_id] THEN FALSE
    ELSE TRUE

\* Mutant: a signer id with no registered key passes.
AuthenticateUnregistered(packet, public_keys, public_key_point, sender_is_coordinator) ==
    IF packet.msg \in CoordinatorPackets THEN sender_is_coordinator
    ELSE \/ packet.signer_id \notin DOMAIN public_keys
         \/ public_keys[packet.signer_id] = public_key_point

authenticate_message(packet, public_keys, public_key_point, sender_is_coordinator) ==
    IF packet.msg \in CoordinatorPackets THEN sender_is_coordinator
    ELSE check_signer_public_key(public_keys, public_key_point, packet.signer_id)

\* Lines 1019-1033: the sender's election and the authentication.
IsAuthenticated(msg) ==
    LET sender_is_coordinator ==
            given_key_is_coordinator(msg.signer_pub_key, ws_tip, ws_signer_set,
                                     tk_width)
    IN authenticate_message(msg.payload.inner, ws_public_keys,
                            PointFrom(msg.signer_pub_key), sender_is_coordinator)

\* Mutant: the tip tag of the message is not compared with the round's tip.
LoopBodyIgnoringTip(msg) ==
    IF ~msg.verifies THEN "invalid signature"
    ELSE IF msg.payload.kind # "WstsMessage" THEN "not wsts"
    ELSE IF ~IsAuthenticated(msg) THEN "not authenticated"
    ELSE "process_message"

\* The body of the while loop up to process_message: where the message
\* leaves it.
LoopBody(msg) ==
    IF msg.bitcoin_chain_tip # ws_tip THEN "concurrent WSTS activity"
    ELSE IF ~msg.verifies THEN "invalid signature"
    ELSE IF msg.payload.kind # "WstsMessage" THEN "not wsts"
    ELSE IF ~IsAuthenticated(msg) THEN "not authenticated"
    ELSE "process_message"

InitWsts ==
    /\ ws_status = "start"
    /\ ws_signer_set = {}
    /\ ws_seen = 0
    /\ ws_fed = 0
    /\ ws_sent = 0
    /\ ws_msg = NoMessage
    /\ ws_verdict = "None"
    /\ ws_shutdown = FALSE
    /\ ws_txid = 1

InitWstsIdle ==
    /\ InitWsts
    /\ ws_stream_txids = {ws_txid}
    /\ ws_tip = 1
    /\ ws_public_keys = SignerPublicKeys(bootstrap_signing_set)

\* The round's tip is any tip; the state machine was built in the same tick
\* from the signer set in storage.
InitWstsInputs ==
    /\ InitWsts
    /\ ws_stream_txids = {ws_txid}
    /\ ws_tip \in TipHashes
    /\ ws_public_keys = SignerPublicKeys(get_signer_set_and_aggregate_key.signer_set)

\* A round of one tip and one signer set, with messages of this round and
\* of another round of the same or another tip in the stream.
InitWstsOtherRounds ==
    /\ InitWsts
    /\ ws_tip = 1
    /\ ws_public_keys = SignerPublicKeys(get_signer_set_and_aggregate_key.signer_set)
    /\ ws_stream_txids = {ws_txid, ws_txid + 1}

StreamReturnedNoneWithoutShutdown == [signal_shutdown |-> FALSE, error |-> "SignerShutdown"]

\* signal_stream.next() returned None: the termination handle is signalled
\* and the round returns Err(SignerShutdown).
StreamReturnedNone == [signal_shutdown |-> TRUE, error |-> "SignerShutdown"]

\* get_signer_set_and_aggregate_key succeeds and the loop is entered.
DriveWstsStateMachine ==
    /\ ws_status = "start"
    /\ ws_status' = "running"
    /\ ws_signer_set' = get_signer_set_and_aggregate_key.signer_set
    /\ UNCHANGED <<not_ws_vars, ws_shutdown, ws_txid, ws_stream_txids, ws_tip, ws_public_keys, ws_seen, ws_fed, ws_sent,
                   ws_msg, ws_verdict>>

\* get_signer_set_and_aggregate_key returns Err.
DriveSignerSetFails ==
    /\ ws_status = "start"
    /\ ws_status' = "Storage"
    /\ UNCHANGED <<not_ws_vars, ws_shutdown, ws_txid, ws_stream_txids, ws_tip, ws_signer_set, ws_public_keys, ws_seen,
                   ws_fed, ws_sent, ws_msg, ws_verdict>>

\* signal_stream.next() yields msg.
Takes(msg) ==
    /\ ws_status = "running"
    /\ ws_seen < MaxInbound
    /\ ws_seen' = ws_seen + 1
    /\ ws_msg' = msg
    /\ ws_verdict' = LoopBody(msg)

\* One of the `continue`s before process_message.
DropMessage ==
    /\ \E msg \in SignedMessages(ws_tip) :
          /\ Takes(msg)
          /\ LoopBody(msg) # "process_message"
    /\ UNCHANGED <<not_ws_vars, ws_shutdown, ws_txid, ws_stream_txids, ws_status, ws_tip, ws_signer_set, ws_public_keys,
                   ws_fed, ws_sent>>

\* process_message returns Err: the packet is ignored.
ProcessMessageIgnores ==
    /\ \E msg \in SignedMessages(ws_tip) :
          /\ Takes(msg)
          /\ LoopBody(msg) = "process_message"
    /\ ws_fed' = ws_fed + 1
    /\ UNCHANGED <<not_ws_vars, ws_shutdown, ws_txid, ws_stream_txids, ws_status, ws_tip, ws_signer_set, ws_public_keys,
                   ws_sent>>

\* process_message returns Ok: an outbound packet, if any, is sent, and an
\* operation result, if any, ends the round.
ProcessMessage ==
    /\ \E msg \in SignedMessages(ws_tip) :
          /\ Takes(msg)
          /\ LoopBody(msg) = "process_message"
    /\ ws_fed' = ws_fed + 1
    /\ \E outbound_packet \in BOOLEAN, operation_result \in BOOLEAN :
          /\ ws_sent' = IF outbound_packet THEN ws_sent + 1 ELSE ws_sent
          /\ ws_status' = IF operation_result THEN "Ok" ELSE "running"
    /\ UNCHANGED <<not_ws_vars, ws_shutdown, ws_txid, ws_stream_txids, ws_tip, ws_signer_set, ws_public_keys>>

\* process_message returns an outbound packet and send_message returns Err.
ProcessMessageSendFails ==
    /\ \E msg \in SignedMessages(ws_tip) :
          /\ Takes(msg)
          /\ LoopBody(msg) = "process_message"
    /\ ws_fed' = ws_fed + 1
    /\ ws_status' = "Network"
    /\ UNCHANGED <<not_ws_vars, ws_shutdown, ws_txid, ws_stream_txids, ws_tip, ws_signer_set, ws_public_keys, ws_sent>>

\* signal_stream.next() returns None.
WstsStreamCloses ==
    /\ ws_status = "running"
    /\ ws_shutdown' = StreamReturnedNone.signal_shutdown
    /\ ws_status' = StreamReturnedNone.error
    /\ UNCHANGED <<not_ws_vars, ws_txid, ws_stream_txids, ws_tip, ws_signer_set, ws_public_keys, ws_seen,
                   ws_fed, ws_sent, ws_msg, ws_verdict>>

\* tokio::time::timeout around the round elapses while the loop waits.
CoordinatorTimeout ==
    /\ ws_status = "running"
    /\ ws_status' = "CoordinatorTimeout"
    /\ UNCHANGED <<not_ws_vars, ws_shutdown, ws_txid, ws_stream_txids, ws_tip, ws_signer_set, ws_public_keys, ws_seen,
                   ws_fed, ws_sent, ws_msg, ws_verdict>>

(***************************************************************************)
(* Initial states.                                                         *)
(***************************************************************************)
Chains == { f \in [Blocks -> 0..NumBlocks] : \A b \in Blocks : f[b] < b }
StreamItems == { OkItem(b) : b \in Blocks } \cup {StreamErr}
Streams == UNION { [1..n -> StreamItems] : n \in 0..MaxStream }
OkStreams == { st \in Streams : \A i \in 1..Len(st) : st[i].ok }

(***************************************************************************)
(* process_sign_request: the signing of one Stacks transaction by the      *)
(* signers of the multisig wallet, and its submission.                     *)
(***************************************************************************)
MaxRequired == 2

\* The public keys of the signers' multisig wallet.
WalletPublicKeys == 1..MaxRequired

NoSignedMessage == [bitcoin_chain_tip |-> 0, payload |-> "None", txid |-> 0, signature |-> 0]

\* The signed messages of the signal stream: a tip tag and a payload; a
\* StacksTransactionSignature holds a txid and a signature, which stands
\* here for the public key recovered from it.
SignedStreamMessages ==
    [bitcoin_chain_tip : 1..2, payload : {"StacksTransactionSignature"},
     txid : 1..2, signature : PublicKeys]
        \cup [bitcoin_chain_tip : 1..2, payload : {"Other"}, txid : {0}, signature : {0}]

\* multi_tx.add_signature: the signature of a wallet key is kept under
\* that key, any other is an error.
AddSignatureOk(signature) == signature \in WalletPublicKeys

add_signature(signatures, signature) ==
    IF AddSignatureOk(signature) THEN signatures \cup {signature} ELSE signatures

\* while multi_tx.num_signatures() < wallet.signatures_required()
NeedsSignatures == Cardinality(st_signatures) < st_signatures_required

IsSignatureForAnyTransaction(msg) ==
    /\ msg.bitcoin_chain_tip = st_chain_tip
    /\ msg.payload = "StacksTransactionSignature"

\* The messages of the loop that reach add_signature: those of the round's
\* tip whose payload is a signature for the request's txid.
IsSignatureForRequest(msg) ==
    /\ msg.bitcoin_chain_tip = st_chain_tip
    /\ msg.payload = "StacksTransactionSignature"
    /\ msg.txid = st_txid

InitSign ==
    /\ st_status = "start"
    /\ st_signatures = {}
    /\ st_sent = FALSE
    /\ st_msg = NoSignedMessage
    /\ st_submitted = FALSE
    /\ st_shutdown = FALSE

InitSignIdle ==
    /\ InitSign
    /\ st_chain_tip = 1
    /\ st_txid = 1
    /\ st_signatures_required = 1

InitSignInputs ==
    /\ InitSign
    /\ st_chain_tip \in 1..2
    /\ st_txid \in 1..2
    /\ st_signatures_required \in 0..MaxRequired

\* self.send_message(req, chain_tip).await? succeeds.
SendSignRequest ==
    /\ st_status = "start"
    /\ st_sent' = TRUE
    /\ st_status' = "collect"
    /\ UNCHANGED <<not_st_vars, st_shutdown, st_chain_tip, st_txid, st_signatures_required,
                   st_signatures, st_msg, st_submitted>>

\* send_message fails: in sign_ecdsa or network.broadcast before the
\* request is out, or in context.signal after it.
SendSignRequestFails ==
    /\ st_status = "start"
    /\ st_sent' \in BOOLEAN
    /\ st_status' = "Err(send_message)"
    /\ UNCHANGED <<not_st_vars, st_shutdown, st_chain_tip, st_txid, st_signatures_required,
                   st_signatures, st_msg, st_submitted>>

\* One pass of the loop with a message from the stream.
TakeSignedMessage ==
    /\ st_status = "collect"
    /\ NeedsSignatures
    /\ \E msg \in SignedStreamMessages :
          /\ st_msg' = msg
          /\ st_signatures' =
                IF IsSignatureForRequest(msg)
                THEN add_signature(st_signatures, msg.signature)
                ELSE st_signatures
    /\ UNCHANGED <<not_st_vars, st_shutdown, st_status, st_chain_tip, st_txid,
                   st_signatures_required, st_sent, st_submitted>>

\* signal_stream.next() returns None.
SignedStreamCloses ==
    /\ st_status = "collect"
    /\ NeedsSignatures
    /\ st_shutdown' = StreamReturnedNone.signal_shutdown
    /\ st_status' = "Err(SignerShutdown)"
    /\ UNCHANGED <<not_st_vars, st_chain_tip, st_txid, st_signatures_required,
                   st_signatures, st_sent, st_msg, st_submitted>>

\* tokio::time::timeout(max_duration, future) elapses.
SigningRoundTimeout ==
    /\ st_status = "collect"
    /\ NeedsSignatures
    /\ st_status' = "Err(SignatureTimeout)"
    /\ UNCHANGED <<not_st_vars, st_shutdown, st_chain_tip, st_txid, st_signatures_required,
                   st_signatures, st_sent, st_msg, st_submitted>>

\* The loop ends: Ok(multi_tx.finalize_transaction()).
FinalizeTransaction ==
    /\ st_status = "collect"
    /\ ~NeedsSignatures
    /\ st_status' = "finalized"
    /\ UNCHANGED <<not_st_vars, st_shutdown, st_chain_tip, st_txid, st_signatures_required,
                   st_signatures, st_sent, st_msg, st_submitted>>

\* process_sign_request: submit_tx and its three answers.
SubmitTx ==
    /\ st_status = "finalized"
    /\ st_submitted' = TRUE
    /\ st_status' \in {"Ok(txid)", "Err(Rejection)", "Err(StacksRpc)"}
    /\ UNCHANGED <<not_st_vars, st_shutdown, st_chain_tip, st_txid, st_signatures_required,
                   st_signatures, st_sent, st_msg>>

(***************************************************************************)
(* construct_and_sign_bitcoin_sbtc_transactions: the pre-sign request, and *)
(* for each transaction of the package its signing rounds, its broadcast   *)
(* and the update of the deposits in the registry.                         *)
(***************************************************************************)
MaxSweepRequests == 3

\* The requests of SbtcRequests::construct_transactions' package: the
\* pending requests in order, split into consecutive transactions.
RECURSIVE Packages(_)
Packages(requests) ==
    IF requests = <<>> THEN {<<>>}
    ELSE UNION { { <<SubSeq(requests, 1, k)>> \o rest :
                     rest \in Packages(SubSeq(requests, k + 1, Len(requests))) } :
                 k \in 1..Len(requests) }

\* From<&Requests> for TxRequestIds: the outpoints of the deposits and the
\* ids of the withdrawals of one transaction, each in the order of the
\* transaction's requests.
TxRequestIds(requests) ==
    [deposits |-> SelectSeq(requests, LAMBDA r : r \in sw_deposits),
     withdrawals |-> SelectSeq(requests, LAMBDA r : r \notin sw_deposits)]

PreSignRequestOfFirstTransaction(transaction_package) ==
    [i \in 1..Min({1, Len(transaction_package)}) |-> TxRequestIds(transaction_package[i])]

\* BitcoinPreSignRequest.requests
PreSignRequests(transaction_package) ==
    [i \in 1..Len(transaction_package) |-> TxRequestIds(transaction_package[i])]

\* sighashes.deposits of a transaction: one for each deposit input.
NumDepositInputs(requests) == Len(TxRequestIds(requests).deposits)

SignersInputSigned(requests, input) == TRUE

\* The loop over sighashes.deposits is over.
AllInputsSigned(requests, input) == input = NumDepositInputs(requests)

SweepEvent(kind, tx, input, requests) ==
    [kind |-> kind, tx |-> tx, input |-> input, requests |-> requests]

InitSweep ==
    /\ sw_pc = "start"
    /\ sw_package = <<>>
    /\ sw_tx = 0
    /\ sw_input = 0
    /\ sw_log = <<>>

InitSweepIdle ==
    /\ InitSweep
    /\ sw_pending = <<>>
    /\ sw_deposits = {}
    /\ sw_signer_utxo = TRUE

\* Storage holds up to MaxSweepRequests pending requests, deposits and
\* withdrawals.
InitSweepInputs ==
    /\ InitSweep
    /\ \E n \in 0..MaxSweepRequests :
          /\ sw_pending = [i \in 1..n |-> i]
          /\ sw_deposits \in SUBSET (1..n)
    /\ sw_signer_utxo \in BOOLEAN

\* The message a step sends to the peers.
SentBy(step) ==
    CASE step = "presign" ->
            SweepEvent("BitcoinPreSignRequest", 0, 0, PreSignRequests(sw_package))
      [] step = "sign" -> SweepEvent("WstsMessage", sw_tx, sw_input, <<>>)
      [] step = "publish" -> SweepEvent("SweepTransactionInfo", sw_tx, 0, <<>>)

SweepFails(log) ==
    /\ sw_pc' = "Err"
    /\ sw_log' = log
    /\ UNCHANGED <<not_sw_vars, sw_pending, sw_deposits, sw_signer_utxo, sw_package, sw_tx, sw_input>>

\* get_stacks_chain_tip finds a tip and get_pending_requests has read the
\* pending accepted deposits and withdrawals.
GetPendingRequests ==
    /\ sw_pc = "start"
    /\ sw_pc' = "requests"
    /\ UNCHANGED <<not_sw_vars, sw_pending, sw_deposits, sw_signer_utxo, sw_package, sw_tx,
                   sw_input, sw_log>>

GetBtcStateAlways(requests) == TRUE

\* get_pending_requests returns Ok(None) without requests, before the
\* SbtcRequests whose signer_state is get_btc_state(..).await? is built.
GetBtcStateIsCalled(requests) == requests # <<>>

\* The rest of get_pending_requests: the votes of each request, then
\* Ok(None), or get_btc_state, which fails with MissingSignerUtxo without
\* a signer UTXO and with the errors of the fee estimate, of storage and
\* of the mempool otherwise.
GetBtcState ==
    /\ sw_pc = "requests"
    /\ IF ~GetBtcStateIsCalled(sw_pending) THEN sw_pc' = "Ok"
       ELSE IF ~sw_signer_utxo THEN sw_pc' = "Err"
       ELSE sw_pc' \in {"construct", "Err"}
    /\ UNCHANGED <<not_sw_vars, sw_pending, sw_deposits, sw_signer_utxo, sw_package, sw_tx,
                   sw_input, sw_log>>

ConstructTransactions ==
    /\ sw_pc = "construct"
    /\ sw_package' \in Packages(sw_pending)
    /\ sw_pc' = "presign"
    /\ UNCHANGED <<not_sw_vars, sw_pending, sw_deposits, sw_signer_utxo, sw_tx, sw_input, sw_log>>

\* self.send_message(sbtc_requests, bitcoin_chain_tip).await? and the
\* sleep; then the first transaction of the package.
SendPreSignRequest ==
    /\ sw_pc = "presign"
    /\ sw_log' = Append(sw_log, SentBy("presign"))
    /\ sw_pc' = IF sw_package = <<>> THEN "Ok" ELSE "sign"
    /\ sw_tx' = 1
    /\ sw_input' = 0
    /\ UNCHANGED <<not_sw_vars, sw_pending, sw_deposits, sw_signer_utxo, sw_package>>

\* sign_and_broadcast: the state machine is loaded and
\* coordinate_signing_round sends the first WSTS message of the round.
StartSigningRound ==
    /\ sw_pc = "sign"
    /\ sw_log' = Append(sw_log, SentBy("sign"))
    /\ sw_pc' = "round"
    /\ UNCHANGED <<not_sw_vars, sw_pending, sw_deposits, sw_signer_utxo, sw_package, sw_tx, sw_input>>

\* The round returns a signature: the next deposit input, or the
\* broadcast.
SigningRoundSucceeds ==
    /\ sw_pc = "round"
    /\ sw_log' = Append(sw_log, SweepEvent("signature", sw_tx, sw_input, <<>>))
    /\ IF AllInputsSigned(sw_package[sw_tx], sw_input)
       THEN /\ sw_pc' = "broadcast"
            /\ UNCHANGED sw_input
       ELSE /\ sw_pc' = "sign"
            /\ sw_input' = sw_input + 1
    /\ UNCHANGED <<not_sw_vars, sw_pending, sw_deposits, sw_signer_utxo, sw_package, sw_tx>>

BroadcastTransaction ==
    /\ sw_pc = "broadcast"
    /\ sw_log' = Append(sw_log, SweepEvent("broadcast_transaction", sw_tx, 0, <<>>))
    /\ sw_pc' = "publish"
    /\ UNCHANGED <<not_sw_vars, sw_pending, sw_deposits, sw_signer_utxo, sw_package, sw_tx, sw_input>>

\* The SweepTransactionInfo message for the peers.
SendSweepTransactionInfo ==
    /\ sw_pc = "publish"
    /\ sw_log' = Append(sw_log, SentBy("publish"))
    /\ sw_pc' = "accept"
    /\ UNCHANGED <<not_sw_vars, sw_pending, sw_deposits, sw_signer_utxo, sw_package, sw_tx, sw_input>>

\* accept_deposits(&transaction, &stacks_chain_tip) succeeds: the next
\* transaction of the package, or Ok(()).
AcceptDeposits ==
    /\ sw_pc = "accept"
    /\ sw_log' = Append(sw_log, SweepEvent("accept_deposits", sw_tx, 0, <<>>))
    /\ IF sw_tx = Len(sw_package)
       THEN /\ sw_pc' = "Ok"
            /\ UNCHANGED <<sw_tx, sw_input>>
       ELSE /\ sw_pc' = "sign"
            /\ sw_tx' = sw_tx + 1
            /\ sw_input' = 0
    /\ UNCHANGED <<not_sw_vars, sw_pending, sw_deposits, sw_signer_utxo, sw_package>>

\* Any `?` of the phase returns its error: no Stacks chain tip, a storage
\* read, construct_transactions, the load of the state machine,
\* construct_digests, a signing round that fails or times out, the
\* broadcast or accept_deposits; send_message fails before the message is
\* out, or in context.signal after it.
SweepStepFails ==
    /\ sw_pc \in {"start", "construct", "presign", "sign", "round", "broadcast",
                  "publish", "accept"}
    /\ \/ SweepFails(sw_log)
       \/ /\ sw_pc \in {"presign", "sign", "publish"}
          /\ SweepFails(Append(sw_log, SentBy(sw_pc)))

(***************************************************************************)
(* assess_mempool_sweep_transaction_fees: the fees of the sweep package    *)
(* in the mempool that spends the signers' UTXO.                           *)
(***************************************************************************)
MaxSpending == 3
NumDescendants == 2
MaxFee == 2

\* The txids of mempool transactions that can spend the signers' UTXO, and
\* those of the transactions that can descend from them.
SpendingTxids == 1..MaxSpending
DescendantTxids == (MaxSpending + 1)..(MaxSpending + NumDescendants)

\* The lists without repetition the Bitcoin node can return for the
\* transactions spending an output.
SpendingLists ==
    { l \in UNION { [1..n -> SpendingTxids] : n \in 0..MaxSpending } :
        \A i, j \in DOMAIN l : i # j => l[i] # l[j] }

NoFees == [some |-> FALSE, total |-> 0]
SomeFees(total) == [some |-> TRUE, total |-> total]

\* Iterator::max_by_key: the element with the maximum key, the last one of
\* those with that key.
MaxByKey(list, key) ==
    list[CHOOSE i \in DOMAIN list :
            /\ \A j \in DOMAIN list : key[list[j]] <= key[list[i]]
            /\ \A j \in DOMAIN list : j > i => key[list[j]] < key[list[i]]]

RECURSIVE SumOfFees(_, _)
SumOfFees(txids, fees) ==
    IF txids = {} THEN 0
    ELSE LET t == CHOOSE x \in txids : TRUE
         IN fees[t] + SumOfFees(txids \ {t}, fees)

\* The fold over descendant_fees, from the fee of the root.
TotalFees(root, descendants, fees) == fees[root] + SumOfFees(descendants, fees)

InitFees ==
    /\ fe_pc = "start"
    /\ fe_root = 0
    /\ fe_result = NoFees

InitFeesIdle ==
    /\ InitFees
    /\ fe_spending = <<>>
    /\ fe_fees = [t \in SpendingTxids \cup DescendantTxids |-> 1]
    /\ fe_descendants = [t \in SpendingTxids |-> {}]

InitFeesInputs ==
    /\ InitFees
    /\ fe_spending \in SpendingLists
    /\ fe_fees \in [SpendingTxids \cup DescendantTxids -> 1..MaxFee]
    /\ fe_descendants \in [SpendingTxids -> SUBSET DescendantTxids]

\* Ok(None) without a transaction spending the output, else the root and
\* Ok(Some(Fees)) with the total of the root and its descendants.
AssessMempoolSweepTransactionFees ==
    /\ fe_pc = "start"
    /\ fe_pc' = "Ok"
    /\ IF fe_spending = <<>>
       THEN UNCHANGED <<fe_root, fe_result>>
       ELSE /\ fe_root' = MaxByKey(fe_spending, fe_fees)
            /\ fe_result' = SomeFees(TotalFees(fe_root', fe_descendants[fe_root'], fe_fees))
    /\ UNCHANGED <<not_fe_vars, fe_spending, fe_fees, fe_descendants>>

\* An error of the Bitcoin client: of the first call, or of a fee or the
\* descendants once there are transactions.
AssessMempoolSweepTransactionFeesFails ==
    /\ fe_pc = "start"
    /\ fe_pc' = "Err"
    /\ UNCHANGED <<not_fe_vars, fe_spending, fe_fees, fe_descendants, fe_root, fe_result>>

(***************************************************************************)
(* check_and_submit_rotate_key_transaction.                                *)
(***************************************************************************)
NoSignRequest == [some |-> FALSE, aggregate_key |-> 0, new_aggregate_key |-> 0]

\* The StacksTransactionSignRequest of a RotateKeysV1 call.
RotateKeysSignRequest(signing_key, rotate_key_aggregate_key) ==
    [some |-> TRUE, aggregate_key |-> signing_key,
     new_aggregate_key |-> rotate_key_aggregate_key]

UpToDateOrUnset(last_dkg, current_aggregate_key) ==
    current_aggregate_key \in {0, last_dkg.aggregate_key}

\* Some(last_dkg.aggregate_key) == current_aggregate_key
IsUpToDate(last_dkg, current_aggregate_key) ==
    current_aggregate_key = last_dkg.aggregate_key

\* current_aggregate_key.unwrap_or(*aggregate_key)
SigningKey(current_aggregate_key, aggregate_key) ==
    IF current_aggregate_key # 0 THEN current_aggregate_key ELSE aggregate_key

InitRotateKey ==
    /\ rk_pc = "start"
    /\ rk_sign_request = NoSignRequest

InitRotateKeyIdle ==
    /\ InitRotateKey
    /\ sbtc_contracts_deployed = TRUE
    /\ rk_is_deployed = TRUE
    /\ rk_last_dkg = NoRow
    /\ rk_current_aggregate_key = 0
    /\ rk_aggregate_key = 1

\* A set flag was set after the node had answered that every contract is
\* deployed.
InitRotateKeyInputs ==
    /\ InitRotateKey
    /\ rk_is_deployed \in BOOLEAN
    /\ sbtc_contracts_deployed \in {FALSE, rk_is_deployed}
    /\ rk_last_dkg \in {NoRow} \cup { Row(k, bootstrap_signing_set) : k \in AggregateKeys }
    /\ rk_current_aggregate_key \in {0} \cup AggregateKeys
    /\ rk_aggregate_key \in AggregateKeys

RotateKeyStep(next, deployed, sign_request) ==
    /\ rk_pc' = next
    /\ sbtc_contracts_deployed' = deployed
    /\ rk_sign_request' = sign_request
    /\ UNCHANGED <<not_rk_vars, rk_is_deployed, rk_last_dkg, rk_current_aggregate_key,
                   rk_aggregate_key>>

\* all_smart_contracts_deployed, and the return when a contract is missing.
AllSmartContractsDeployed ==
    /\ rk_pc = "start"
    /\ IF sbtc_contracts_deployed THEN RotateKeyStep("shares", TRUE, rk_sign_request)
       ELSE IF rk_is_deployed THEN RotateKeyStep("shares", TRUE, rk_sign_request)
       ELSE RotateKeyStep("Ok", FALSE, rk_sign_request)

\* get_latest_encrypted_dkg_shares, and the return without shares.
GetLatestEncryptedDkgShares ==
    /\ rk_pc = "shares"
    /\ RotateKeyStep(IF rk_last_dkg.some THEN "current" ELSE "Ok",
                     sbtc_contracts_deployed, rk_sign_request)

\* get_current_signers_aggregate_key, and the return when the registry has
\* the key of the latest shares.
GetCurrentSignersAggregateKey ==
    /\ rk_pc = "current"
    /\ RotateKeyStep(IF IsUpToDate(rk_last_dkg, rk_current_aggregate_key)
                     THEN "Ok" ELSE "wallet",
                     sbtc_contracts_deployed, rk_sign_request)

\* get_signer_wallet, the contract call, its fee and its sign request.
ConstructAndSignRotateKeyTransaction ==
    /\ rk_pc = "wallet"
    /\ RotateKeyStep("sign", sbtc_contracts_deployed,
                     RotateKeysSignRequest(
                         SigningKey(rk_current_aggregate_key, rk_aggregate_key),
                         rk_last_dkg.aggregate_key))

\* process_sign_request returns.
RotateKeySigned ==
    /\ rk_pc = "sign"
    /\ \E next \in {"Ok", "Err"} :
          RotateKeyStep(next, sbtc_contracts_deployed, rk_sign_request)

\* A read of the node or of storage, the wallet or the fee estimate fails.
RotateKeyStepFails ==
    /\ \/ rk_pc = "start" /\ ~sbtc_contracts_deployed
       \/ rk_pc \in {"shares", "current", "wallet"}
    /\ RotateKeyStep("Err", sbtc_contracts_deployed, rk_sign_request)

InitTask ==
    /\ pc = "idle"
    /\ pos = 0
    /\ item = StreamErr
    /\ blocks = <<>>
    /\ deposit_requests = EmptyMap
    /\ signals = 0
    /\ pass = 1
    /\ clean = TRUE
    /\ db_bitcoin_blocks = {}
    /\ db_transactions = {}
    /\ db_deposit_requests = {}
    /\ db_stacks_blocks = {}
    /\ db_script_pubkeys = {}
    /\ snapshot = [clean |-> TRUE, persisted |-> Persisted]
    /\ horizon_cut = {}
    /\ error = "None"
    /\ collected = {}

InitObserver ==
    /\ InitTask
    /\ InitElectionIdle
    /\ InitCoordinator
    /\ InitTickIdle
    /\ InitWstsIdle
    /\ InitSignIdle
    /\ InitSweepIdle
    /\ InitFeesIdle
    /\ InitRotateKeyIdle

Init ==
    /\ chain \in Chains
    /\ avail \in { Blocks \ m : m \in {{}} \cup { {b} : b \in Blocks } }
    /\ horizon \in 1..MaxHorizon
    /\ stream \in Streams
    /\ emily = <<>>
    /\ InitObserver

(***************************************************************************)
(* BlockObserver::run, one action per await.                               *)
(***************************************************************************)
\* self.bitcoin_blocks.next() yields an item.
StreamNext ==
    /\ pc = "idle"
    /\ pos < Len(stream)
    /\ item' = stream[pos + 1]
    /\ pos' = pos + 1
    /\ pc' = "load"
    /\ UNCHANGED <<other_vars, env_vars, emily, blocks, deposit_requests, signals, pass, error,
                   clean, snapshot, horizon_cut, collected, db_vars>>

\* The stream ends: the loop exits and run returns Ok.
StreamEnd ==
    /\ pc = "idle"
    /\ pos = Len(stream)
    /\ pc' = "done"
    /\ UNCHANGED <<other_vars, env_vars, emily, pos, item, blocks, deposit_requests, signals,
                   pass, error, clean, snapshot, horizon_cut, collected, db_vars>>

LoadLatestDepositRequests ==
    /\ pc = "load"
    /\ deposit_requests' = LoadRequests(emily, deposit_requests)
    /\ pc' = "walk"
    /\ UNCHANGED <<other_vars, env_vars, emily, pos, item, blocks, signals, pass, error, clean,
                   snapshot, horizon_cut, collected, db_vars>>

\* new_block_hash? and next_blocks_to_process(..)?
NextBlocksToProcess ==
    /\ pc = "walk"
    /\ IF ~item.ok
       THEN /\ pc' = "failed"
            /\ error' = "Stream"
            /\ UNCHANGED <<blocks, horizon_cut, collected>>
       ELSE LET r == next_blocks_to_process(item.hash)
            IN IF ~r.ok
               THEN /\ pc' = "failed"
                    /\ error' = "MissingBlock"
                    /\ UNCHANGED <<blocks, horizon_cut, collected>>
               ELSE /\ blocks' = r.blocks
                    /\ pc' = IF r.blocks = <<>> THEN "signal" ELSE "stacks"
                    /\ horizon_cut' = IF Len(r.blocks) = horizon
                                      THEN horizon_cut \cup {r.blocks[1]}
                                      ELSE horizon_cut
                    /\ collected' = { r.blocks[i] : i \in 1..Len(r.blocks) }
                    /\ UNCHANGED error
    /\ UNCHANGED <<other_vars, env_vars, emily, pos, item, deposit_requests, signals,
                   pass, clean, snapshot, db_vars>>

\* Mutant: the sBTC transactions are written before the block row.
StepAfterSbtcFirst(step) ==
    CASE step = "stacks" -> "sbtc"
      [] step = "sbtc" -> "write_block"
      [] step = "write_block" -> "deposits"

\* Mutant: the block row is not written.
StepAfterSkipBlock(step) ==
    CASE step = "stacks" -> "sbtc"
      [] step = "write_block" -> "sbtc"
      [] step = "sbtc" -> "deposits"

\* The order of the writes of process_bitcoin_block and write_bitcoin_block:
\* Stacks blocks, the block row, the sBTC transactions, the deposit requests.
StepAfter(step) ==
    CASE step = "stacks" -> "write_block"
      [] step = "write_block" -> "sbtc"
      [] step = "sbtc" -> "deposits"

\* process_bitcoin_block: tenure info, unknown ancestors, write_stacks_blocks.
WriteStacksBlocks ==
    /\ pc = "stacks"
    /\ db_stacks_blocks' = db_stacks_blocks \cup UnknownStacksAncestors
    /\ pc' = StepAfter("stacks")
    /\ UNCHANGED <<other_vars, env_vars, emily, pos, item, blocks, deposit_requests, signals,
                   pass, error, clean, snapshot, horizon_cut, collected, db_bitcoin_blocks, db_transactions,
                   db_deposit_requests, db_script_pubkeys>>

\* write_bitcoin_block: the storage write of the block row.
WriteBitcoinBlock ==
    /\ pc = "write_block"
    /\ db_bitcoin_blocks' = db_bitcoin_blocks \cup {BitcoinBlockRow(Head(blocks))}
    /\ pc' = StepAfter("write_block")
    /\ UNCHANGED <<other_vars, env_vars, emily, pos, item, blocks, deposit_requests, signals,
                   pass, error, clean, snapshot, horizon_cut, collected, db_transactions, db_deposit_requests,
                   db_stacks_blocks, db_script_pubkeys>>

\* write_bitcoin_block: extract_sbtc_transactions for the block.
ExtractSbtcTransactions ==
    /\ pc = "sbtc"
    /\ db_transactions' = db_transactions
          \cup SbtcTransactions(Head(blocks), BlockTxdata(Head(blocks)))
    /\ pc' = StepAfter("sbtc")
    /\ UNCHANGED <<other_vars, env_vars, emily, pos, item, blocks, deposit_requests, signals,
                   pass, error, clean, snapshot, horizon_cut, collected, db_bitcoin_blocks, db_deposit_requests,
                   db_stacks_blocks, db_script_pubkeys>>

\* Mutant: the signal is sent inside the loop, after each block.
SignalAfterEachBlock(rest) == "signal"

\* The `for block in ..` loop of run: the next block, or the signal once
\* the last block is done.
AfterBlock(rest) == IF rest = <<>> THEN "signal" ELSE "stacks"

\* extract_deposit_requests for the block; the block is done.
ExtractDepositRequests ==
    /\ pc = "deposits"
    /\ db_deposit_requests' = db_deposit_requests
          \cup DrainedDeposits(BlockTxdata(Head(blocks)), deposit_requests)
    /\ deposit_requests' = RemoveKeys(BlockTxdata(Head(blocks)), deposit_requests)
    /\ blocks' = Tail(blocks)
    /\ pc' = AfterBlock(Tail(blocks))
    /\ UNCHANGED <<other_vars, env_vars, emily, pos, item, signals, pass, error, clean, snapshot, horizon_cut, collected,
                   db_bitcoin_blocks, db_transactions, db_stacks_blocks,
                   db_script_pubkeys>>

\* extract_deposit_requests when write_deposit_requests fails: the entries
\* were removed from the map before the write.
ExtractDepositRequestsFails ==
    /\ pc = "deposits"
    /\ deposit_requests' = RemoveKeys(BlockTxdata(Head(blocks)), deposit_requests)
    /\ pc' = "failed"
    /\ error' = "StorageWrite"
    /\ clean' = FALSE
    /\ UNCHANGED <<other_vars, env_vars, emily, pos, item, blocks, signals, pass, snapshot,
                   horizon_cut, collected, db_vars>>

\* The errors a port or storage call awaited at a position can return:
\*   walk         get_bitcoin_block (storage read), get_block (Bitcoin RPC)
\*   stacks       get_tenure_info, fetch_unknown_ancestors, write_stacks_*
\*   write_block  write_bitcoin_block
\*   sbtc         get_signers_script_pubkeys, write_bitcoin_transactions
\*   signal       context.signal with no receiver alive
ErrorsAt(step) ==
    CASE step = "walk" -> {"StorageRead", "BitcoinRpc"}
      [] step = "stacks" -> {"StacksRpc", "StorageWrite"}
      [] step = "write_block" -> {"StorageWrite"}
      [] step = "sbtc" -> {"StorageRead", "StorageWrite"}
      [] step = "signal" -> {"Signal"}

\* A port or storage call of the tick returns an error and `?` returns it.
StepFails ==
    /\ pc \in {"walk", "stacks", "write_block", "sbtc", "signal"}
    /\ pc = "walk" => item.ok
    /\ \E e \in ErrorsAt(pc) : error' = e
    /\ pc' = "failed"
    /\ clean' = FALSE
    /\ UNCHANGED <<other_vars, env_vars, emily, pos, item, blocks, deposit_requests, signals,
                   pass, snapshot, horizon_cut, collected, db_vars>>

\* self.context.signal(BitcoinBlockObserved)
SignalBitcoinBlockObserved ==
    /\ pc = "signal"
    /\ signals' = signals + 1
    /\ pc' = "idle"
    /\ UNCHANGED <<other_vars, env_vars, emily, pos, item, blocks, deposit_requests, pass, error,
                   clean, snapshot, horizon_cut, collected, db_vars>>

\* term.wait_for_shutdown() wins the select: the run future is dropped at
\* the await it is suspended on and run returns Ok.
Shutdown ==
    /\ pc \notin {"done", "failed"}
    /\ pc' = "done"
    /\ clean' = FALSE
    /\ UNCHANGED <<other_vars, env_vars, emily, pos, item, blocks, deposit_requests, signals,
                   pass, error, snapshot, horizon_cut, collected, db_vars>>

\* A new BlockObserver is constructed over the same store and is fed the
\* same stream again.
Replay ==
    /\ pc \in {"done", "failed"}
    /\ pass < MaxPass
    /\ pass' = pass + 1
    /\ pc' = "idle"
    /\ pos' = 0
    /\ item' = StreamErr
    /\ blocks' = <<>>
    /\ deposit_requests' = EmptyMap
    /\ snapshot' = [clean |-> clean, persisted |-> Persisted]
    /\ error' = "None"
    /\ collected' = {}
    /\ UNCHANGED <<other_vars, env_vars, emily, signals, clean, horizon_cut, db_vars>>

(***************************************************************************)
(* Other tasks and services acting on what the observer reads.             *)
(***************************************************************************)
\* A signer task stores DKG shares: their scriptPubKey joins the stored set.
WriteEncryptedDkgShares ==
    /\ \E s \in Scripts \ db_script_pubkeys :
          db_script_pubkeys' = db_script_pubkeys \cup {s}
    /\ UNCHANGED <<other_vars, env_vars, emily, obs_vars, db_bitcoin_blocks, db_transactions,
                   db_deposit_requests, db_stacks_blocks>>

\* A user registers a deposit request with the registry.  The observer
\* sees the registry only when it polls, so a registration made at any time
\* between two polls is taken while the observer waits for the stream.
EmilyCreateDeposit ==
    /\ pc = "idle"
    /\ Len(emily) < MaxPending
    /\ \E r \in Requests : emily' = Append(emily, r)
    /\ UNCHANGED <<other_vars, env_vars, obs_vars, db_vars>>

TickStep ==
    \/ StreamNext
    \/ StreamEnd
    \/ LoadLatestDepositRequests
    \/ NextBlocksToProcess
    \/ WriteStacksBlocks
    \/ WriteBitcoinBlock
    \/ ExtractSbtcTransactions
    \/ ExtractDepositRequests
    \/ ExtractDepositRequestsFails
    \/ StepFails
    \/ SignalBitcoinBlockObserved
    \/ Shutdown

Next ==
    \/ TickStep
    \/ Replay
    \/ WriteEncryptedDkgShares

Spec == Init /\ [][Next]_vars

(***************************************************************************)
(* The observer over one linear chain the node knows in full, with the     *)
(* registry's pending requests changing while it runs.                     *)
(***************************************************************************)
InitDeposits ==
    /\ chain = [b \in Blocks |-> b - 1]
    /\ avail = Blocks
    /\ horizon \in 1..MaxHorizon
    /\ stream \in OkStreams
    /\ emily = <<>>
    /\ InitObserver

NextDeposits ==
    \/ TickStep
    \/ WriteEncryptedDkgShares
    \/ EmilyCreateDeposit

SpecDeposits == InitDeposits /\ [][NextDeposits]_vars

(***************************************************************************)
(* The election evaluated by signers for a varying tip and signer set.     *)
(***************************************************************************)
InitObserverIdle ==
    /\ chain = [b \in Blocks |-> b - 1]
    /\ avail = Blocks
    /\ horizon = 1
    /\ stream = <<>>
    /\ emily = <<>>
    /\ InitTask

InitElectionSpec ==
    /\ InitObserverIdle
    /\ InitElection
    /\ InitCoordinator
    /\ InitTickIdle
    /\ InitWstsIdle
    /\ InitSignIdle
    /\ InitSweepIdle
    /\ InitFeesIdle
    /\ InitRotateKeyIdle

ElectionStep ==
    \/ \E s \in Signers : Elect(s)
    \/ NewTip

NextElection == ElectionStep

SpecElection == InitElectionSpec /\ [][NextElection]_vars

(***************************************************************************)
(* The deposit-completion phase of coordinator ticks.                      *)
(***************************************************************************)
InitCoordinatorSpec ==
    /\ InitObserverIdle
    /\ InitElectionIdle
    /\ InitCoordinator
    /\ InitTickIdle
    /\ InitWstsIdle
    /\ InitSignIdle
    /\ InitSweepIdle
    /\ InitFeesIdle
    /\ InitRotateKeyIdle

CoordinatorStep ==
    \/ GetSweptDepositRequests
    \/ PhaseFails
    \/ GetAccount
    \/ PhaseDone
    \/ ConstructFails
    \/ ConstructSignRequest
    \/ SignStacksTransaction
    \/ SignFails
    \/ SubmitAccepted
    \/ SubmitFails
    \/ NextTick

NextCoordinator == CoordinatorStep

SpecCoordinator == InitCoordinatorSpec /\ [][NextCoordinator]_vars

(***************************************************************************)
(* The coordinator event loop over the signals other tasks send it.        *)
(***************************************************************************)
InitRunSpec ==
    /\ InitObserverIdle
    /\ InitElectionIdle
    /\ InitCoordinator
    /\ InitTickInputs
    /\ InitWstsIdle
    /\ InitSignIdle
    /\ InitSweepIdle
    /\ InitFeesIdle
    /\ InitRotateKeyIdle

NextRun ==
    \/ SignalArrives
    \/ RunNextSignal
    \/ RunStreamCloses
    \/ IsEpoch3
    \/ GetBitcoinCanonicalChainTip
    \/ GetSignerSetAndAggregateKey
    \/ IsCoordinator
    \/ CoordinateDkg
    \/ DeploySmartContracts
    \/ CheckAndSubmitRotateKeyTransaction
    \/ ConstructAndSignBitcoinSbtcTransactions
    \/ ConstructAndSignStacksSbtcResponseTransactions
    \/ SignalTenureCompleted

SpecRun == InitRunSpec /\ [][NextRun]_vars

\* The calls of process_new_blocks.
ProcessNewBlocks ==
    \/ IsEpoch3
    \/ GetBitcoinCanonicalChainTip
    \/ GetSignerSetAndAggregateKey
    \/ IsCoordinator
    \/ CoordinateDkg
    \/ DeploySmartContracts
    \/ CheckAndSubmitRotateKeyTransaction
    \/ ConstructAndSignBitcoinSbtcTransactions
    \/ ConstructAndSignStacksSbtcResponseTransactions

\* The event loop on a 64-bit build under the assumption that every call
\* awaited by a tick returns: a tick that has started goes on until run
\* signals its end.
InitFairRunSpec ==
    /\ InitRunSpec
    /\ tk_width = 8

FairSpecRun ==
    InitFairRunSpec /\ [][NextRun]_vars /\ WF_vars(ProcessNewBlocks \/ SignalTenureCompleted)

(***************************************************************************)
(* One DKG or signing round driven by the coordinator.                     *)
(***************************************************************************)
InitWstsSpec ==
    /\ InitObserverIdle
    /\ InitElectionIdle
    /\ InitCoordinator
    /\ InitTick
    /\ signer_public_key = 1
    /\ tk_width \in PointerWidths
    /\ db_last_key_rotation = NoRow
    /\ db_latest_dkg_shares \in {NoRow, Row(2, PublicKeys \ {1})}
    /\ InitWstsInputs
    /\ InitSignIdle
    /\ InitSweepIdle
    /\ InitFeesIdle
    /\ InitRotateKeyIdle

NextWsts ==
    \/ DriveWstsStateMachine
    \/ DriveSignerSetFails
    \/ DropMessage
    \/ ProcessMessageIgnores
    \/ ProcessMessage
    \/ ProcessMessageSendFails
    \/ WstsStreamCloses
    \/ CoordinatorTimeout

SpecWsts == InitWstsSpec /\ [][NextWsts]_vars

(***************************************************************************)
(* The signing and submission of one Stacks transaction.                   *)
(***************************************************************************)
InitSignSpec ==
    /\ InitObserverIdle
    /\ InitElectionIdle
    /\ InitCoordinator
    /\ InitTickIdle
    /\ InitWstsIdle
    /\ InitSignInputs
    /\ InitSweepIdle
    /\ InitFeesIdle
    /\ InitRotateKeyIdle

NextSign ==
    \/ SendSignRequest
    \/ SendSignRequestFails
    \/ TakeSignedMessage
    \/ SignedStreamCloses
    \/ SigningRoundTimeout
    \/ FinalizeTransaction
    \/ SubmitTx

SpecSign == InitSignSpec /\ [][NextSign]_vars

(***************************************************************************)
(* The sweep transactions of one coordinator tick.                         *)
(***************************************************************************)
InitSweepSpec ==
    /\ InitObserverIdle
    /\ InitElectionIdle
    /\ InitCoordinator
    /\ InitTickIdle
    /\ InitWstsIdle
    /\ InitSignIdle
    /\ InitSweepInputs
    /\ InitFeesIdle
    /\ InitRotateKeyIdle

NextSweep ==
    \/ GetPendingRequests
    \/ GetBtcState
    \/ ConstructTransactions
    \/ SendPreSignRequest
    \/ StartSigningRound
    \/ SigningRoundSucceeds
    \/ BroadcastTransaction
    \/ SendSweepTransactionInfo
    \/ AcceptDeposits
    \/ SweepStepFails

SpecSweep == InitSweepSpec /\ [][NextSweep]_vars

(***************************************************************************)
(* The fees of the sweep transactions in the mempool.                      *)
(***************************************************************************)
InitFeesSpec ==
    /\ InitObserverIdle
    /\ InitElectionIdle
    /\ InitCoordinator
    /\ InitTickIdle
    /\ InitWstsIdle
    /\ InitSignIdle
    /\ InitSweepIdle
    /\ InitFeesInputs
    /\ InitRotateKeyIdle

NextFees ==
    \/ AssessMempoolSweepTransactionFees
    \/ AssessMempoolSweepTransactionFeesFails

SpecFees == InitFeesSpec /\ [][NextFees]_vars

(***************************************************************************)
(* The rounds of a tick one after the other: a DKG or signing round, and,  *)
(* when it returned a result, the signing of a Stacks transaction.         *)
(***************************************************************************)
InitRoundsSpec ==
    /\ InitObserverIdle
    /\ InitElectionIdle
    /\ InitCoordinator
    /\ InitTick
    /\ signer_public_key = 1
    /\ tk_width = 8
    /\ db_last_key_rotation = NoRow
    /\ db_latest_dkg_shares = Row(2, PublicKeys \ {1})
    /\ InitWstsInputs
    /\ ws_tip = 1
    /\ InitSignInputs
    /\ st_chain_tip = ws_tip
    /\ InitSweepIdle
    /\ InitFeesIdle
    /\ InitRotateKeyIdle

NextRounds ==
    \/ NextWsts
    \/ /\ ws_status = "Ok"
       /\ NextSign

SpecRounds == InitRoundsSpec /\ [][NextRounds]_vars

(***************************************************************************)
(* A DKG or signing round with messages of other rounds in the stream.     *)
(***************************************************************************)
InitOtherRoundsSpec ==
    /\ InitObserverIdle
    /\ InitElectionIdle
    /\ InitCoordinator
    /\ InitTick
    /\ signer_public_key = 1
    /\ tk_width = 8
    /\ db_last_key_rotation = NoRow
    /\ db_latest_dkg_shares = Row(2, PublicKeys \ {1})
    /\ InitWstsOtherRounds
    /\ InitSignIdle
    /\ InitSweepIdle
    /\ InitFeesIdle
    /\ InitRotateKeyIdle

SpecOtherRounds == InitOtherRoundsSpec /\ [][NextWsts]_vars

(***************************************************************************)
(* The rotate-keys step of a coordinator tick.                             *)
(***************************************************************************)
InitRotateKeySpec ==
    /\ InitObserverIdle
    /\ InitElectionIdle
    /\ InitCoordinator
    /\ InitTickIdle
    /\ InitWstsIdle
    /\ InitSignIdle
    /\ InitSweepIdle
    /\ InitFeesIdle
    /\ InitRotateKeyInputs

NextRotateKey ==
    \/ AllSmartContractsDeployed
    \/ GetLatestEncryptedDkgShares
    \/ GetCurrentSignersAggregateKey
    \/ ConstructAndSignRotateKeyTransaction
    \/ RotateKeySigned
    \/ RotateKeyStepFails

SpecRotateKey == InitRotateKeySpec /\ [][NextRotateKey]_vars

(***************************************************************************)
(* Properties.                                                             *)
(***************************************************************************)
PersistedHashes == { row.block_hash : row \in db_bitcoin_blocks }

\* The run of the first observer ended without a transient fault or a
\* shutdown.
FirstPassClean == pass = 1 /\ clean

\* C1 (as stated): every persisted Bitcoin block other than genesis has a
\* parent_hash that is the hash of a persisted Bitcoin block.
C1_EveryParentPersisted ==
    \A row \in db_bitcoin_blocks :
        row.parent_hash # NoHash => row.parent_hash \in PersistedHashes

\* C1 (amended): every persisted Bitcoin block other than genesis has its
\* parent persisted, unless it was the oldest block of a walk-back that
\* stopped because it had collected `horizon` blocks.
C1_ParentPersistedUpToHorizon ==
    \A row \in db_bitcoin_blocks :
        (row.parent_hash # NoHash /\ row.block_hash \notin horizon_cut)
            => row.parent_hash \in PersistedHashes

\* A walk-back of two blocks was persisted: the younger one is no horizon
\* cut and its parent is persisted.
C1_Witness ==
    \E row \in db_bitcoin_blocks :
        /\ row.parent_hash # NoHash
        /\ row.block_hash \notin horizon_cut
        /\ row.parent_hash \in PersistedHashes
        /\ row.parent_hash \in horizon_cut

\* C2: every persisted sBTC transaction is bound to a block_hash whose
\* Bitcoin block row is persisted (the row is written first).
C2_SbtcTransactionBlockPersisted ==
    \A t \in db_transactions : t.block_hash \in PersistedHashes

\* An sBTC transaction has been persisted.
C2_Witness ==
    /\ db_transactions # {}
    /\ pc = "deposits"

\* C3: when the same stream is replayed through a new observer after a
\* first pass without transient faults, the persisted Bitcoin blocks, sBTC
\* transactions and deposit requests stay what they were after the first
\* pass.
C3_ReplayWritesNothing ==
    (pass >= 2 /\ snapshot.clean) => Persisted = snapshot.persisted

\* The second pass ran to the end of the stream over a store the first pass
\* had written blocks and sBTC transactions to.
C3_Witness ==
    /\ pass = 2
    /\ snapshot.clean
    /\ pc = "done"
    /\ pos = Len(stream)
    /\ Cardinality(db_bitcoin_blocks) >= 2
    /\ db_transactions # {}

\* The stream is <<H0, H1>> with H1's parent H0, both known to the node,
\* the horizon is 1 and the first observer has returned without fault.
C9_Scenario ==
    /\ Len(stream) = 2
    /\ stream[1].ok /\ stream[2].ok
    /\ stream[1].hash \in avail /\ stream[2].hash \in avail
    /\ chain[stream[2].hash] = stream[1].hash
    /\ horizon = 1
    /\ FirstPassClean
    /\ pc = "done"

\* C9 (as stated): in the scenario only H1 is persisted.
C9_OnlyTipPersisted ==
    C9_Scenario => PersistedHashes = {stream[2].hash}

\* C9 (amended): in the scenario both H0 and H1 are persisted, each with
\* its own parent_hash.
C9_BothPersisted ==
    C9_Scenario =>
        /\ PersistedHashes = {stream[1].hash, stream[2].hash}
        /\ \A row \in db_bitcoin_blocks : row.parent_hash = chain[row.block_hash]

\* The scenario of C9 has run to its end.
C9_Witness ==
    /\ C9_Scenario
    /\ Cardinality(db_bitcoin_blocks) = 2

\* The stream delivers a chain in parent-to-child order, every block known
\* to the node, with horizon 1 and no transient fault or shutdown.
C10_Scenario ==
    /\ \A i \in 1..Len(stream) : stream[i].ok /\ stream[i].hash \in avail
    /\ \A i \in 2..Len(stream) : chain[stream[i].hash] = stream[i - 1].hash
    /\ horizon = 1
    /\ FirstPassClean

\* C10: in that scenario run() does not return an error, and when it has
\* returned every block of the chain is persisted under its own hash.
C10_ChainPersisted ==
    C10_Scenario =>
        /\ pc # "failed"
        /\ pc = "done" => \A i \in 1..Len(stream) :
                             stream[i].hash \in PersistedHashes

\* run() has returned Ok after a chain of MaxStream blocks.
C10_Witness ==
    /\ C10_Scenario
    /\ Len(stream) = MaxStream
    /\ pc = "done"
    /\ Cardinality(db_bitcoin_blocks) = MaxStream

\* C4: two signers that have evaluated coordinator_public_key for the same
\* tip hash and the same signer set hold the same elected key.
C4_SameCoordinatorElected ==
    \A s1, s2 \in Signers :
        (el_result[s1].some /\ el_result[s2].some)
            => el_result[s1] = el_result[s2]

\* The nonce was fetched in this tick and the loop over the swept deposits
\* stands between two requests or has ended.
C5_BetweenRequests == co_fetched.some /\ co_pc \in {"construct", "done"}

\* C5: with N the nonce fetched in the tick, the wallet nonce between two
\* swept deposits, and after the last one, is N plus the number of accepted
\* submissions; failed rounds, submission errors and rejections leave no
\* net change.
C5_NonceIsFetchedPlusAccepted ==
    C5_BetweenRequests => wallet_nonce = co_fetched.nonce + Len(co_accepted)

\* The phase ended after one accepted and one failed transaction.
C5_Witness ==
    /\ co_pc = "done"
    /\ co_fetched.some
    /\ Len(co_accepted) = 1
    /\ co_failed = 1
    /\ wallet_nonce = co_fetched.nonce + 1

\* The deposits of the polled requests that reference txid and validate,
\* in the order polled.
RECURSIVE ValidDepositsFor(_, _)
ValidDepositsFor(reqs, txid) ==
    IF reqs = <<>> THEN <<>>
    ELSE (IF /\ Head(reqs).txid = txid
             /\ Head(reqs).txid \in Txids
             /\ Head(reqs).deposit_script # EmptyScript
             /\ TxOutputs(Head(reqs).txid)[Head(reqs).vout + 1].script_pubkey
                  = DepositScriptPubKey(Head(reqs).deposit_script,
                                        Head(reqs).reclaim_script)
          THEN <<[txid |-> txid, vout |-> Head(reqs).vout]>>
          ELSE <<>>) \o ValidDepositsFor(Tail(reqs), txid)

\* C6: load_latest_deposit_requests always goes on to the walk-back (a
\* request that fails validation does not abort the tick), and it appends
\* to the map exactly the deposits of the polled requests that validate
\* against their fetched transaction, whatever else was polled with them.
C6_OnlyValidatedDepositsAdded ==
    [][pc = "load" =>
          /\ pc' \in {"load", "walk", "done"}
          /\ pc' = "walk" =>
                \A t \in DOMAIN deposit_requests :
                    deposit_requests'[t]
                        = deposit_requests[t] \o ValidDepositsFor(emily, t)]_vars

\* A poll returned a request with an empty deposit script followed by a
\* valid one: only the valid one is in the map.
C6_Witness ==
    /\ pc = "walk"
    /\ emily = <<CreateDepositRequest(2, EmptyScript), CreateDepositRequest(1, 1)>>
    /\ deposit_requests[1] = <<[txid |-> 1, vout |-> 0]>>
    /\ deposit_requests[2] = <<>>

\* extract_deposit_requests has returned Ok for the block being processed.
ExtractReturnedOk == pc = "deposits" /\ pc' \in {"stacks", "signal"}

ExtractSbtcReturnedOk == pc = "sbtc" /\ pc' = "deposits"

\* C8: a successful extract_sbtc_transactions(block_hash, txs) persists a
\* transaction of txs bound to block_hash if and only if one of its outputs
\* has a scriptPubKey in the signer scriptPubKeys stored at that moment,
\* and it persists nothing else.
C8_StoresExactlySignerTransactions ==
    [][ExtractSbtcReturnedOk =>
          LET b == Head(blocks)
              txs == BlockTxdata(b)
          IN /\ \A i \in 1..Len(txs) :
                   ([txid |-> txs[i], block_hash |-> b] \in db_transactions')
                     <=> (\E o \in 1..Len(TxOutputs(txs[i])) :
                            TxOutputs(txs[i])[o].script_pubkey \in db_script_pubkeys)
             /\ \A row \in db_transactions' \ db_transactions :
                   /\ row.block_hash = b
                   /\ \E i \in 1..Len(txs) : txs[i] = row.txid]_vars

\* A block with two transactions was scanned: the one paying a signer
\* scriptPubKey is stored, the other is not.
C8_Witness ==
    /\ pc = "deposits"
    /\ Len(BlockTxdata(Head(blocks))) = 2
    /\ \E t \in db_transactions : t.block_hash = Head(blocks)
    /\ \E i \in 1..2 :
          [txid |-> BlockTxdata(Head(blocks))[i], block_hash |-> Head(blocks)]
              \notin db_transactions

\* The walk-back from h over at most n blocks reaches a block that is
\* neither stored nor known to the node.
RECURSIVE WalkReachesMissing(_, _)
WalkReachesMissing(h, n) ==
    IF n = 0 \/ h \in PersistedHashes THEN FALSE
    ELSE IF h \notin avail THEN TRUE
    ELSE WalkReachesMissing(chain[h], n - 1)

C12_FailedBlockNotPersisted ==
    (pc = "failed" /\ blocks # <<>>) => Head(blocks) \notin PersistedHashes

\* The errors of kind Shutdown and ChainInconsistency a tick can return.
ShutdownOrChainInconsistency ==
    {"SignerShutdown", "NoChainTip", "NoStacksChainTip", "MissingSignerUtxo"}

\* C13: when a tick has returned an error of kind Shutdown or
\* ChainInconsistency, run() has returned that error.
C13_ShutdownAndChainErrorsPropagate ==
    tk_error \in ShutdownOrChainInconsistency => run_result = tk_error

\* C14: an error of process_new_blocks is never what run() returns: the
\* failing tick goes on to signal TenureCompleted like any other, and the
\* next NewRequestsHandled taken from the stream starts a tick at the
\* beginning of process_new_blocks with no error.
C14_TickErrorAbortsOnlyTheTick ==
    /\ [](run_result \in {"Running", "Ok", "Signal"})
    /\ [][(InTick /\ tk_error' # "None")
              => (tk_pc' = "tenure_completed" /\ run_result' = "Running")]_vars
    /\ [][(tk_pc = "wait" /\ tk_pc' \notin {"wait", "returned"})
              => (tk_pc' = "is_epoch3" /\ tk_error' = "None")]_vars

\* A tick has started after a tick that ended with an error.
C14_Witness ==
    \E i \in 2..Len(tk_log) :
        /\ tk_log[i].event = "start"
        /\ tk_log[i - 1].event = "end"
        /\ tk_log[i - 1].failed

\* C16: ticks start and end in turn, each end closing the tick started
\* last; the signals are taken in arrival order, so every signal still in
\* the stream arrived after the one taken last.
C16_TicksInOrderAndOneAtATime ==
    /\ \A i \in 1..Len(tk_log) :
          /\ tk_log[i].event = (IF i % 2 = 1 THEN "start" ELSE "end")
          /\ (i % 2 = 0) => tk_log[i].id = tk_log[i - 1].id
          /\ (i % 2 = 1 /\ i > 1) => tk_log[i].id > tk_log[i - 1].id
    /\ (Len(tk_log) % 2 = 1) <=> (InTick \/ tk_pc = "tenure_completed")
    /\ \A k \in 1..Len(signal_stream) : signal_stream[k].id > tk_signal

\* A second tick runs while a further signal waits in the stream.
C16_Witness ==
    /\ Len(tk_log) = 3
    /\ InTick
    /\ signal_stream # <<>>
    /\ tk_pc = "sweep"

\* The key elected for the tick's tip is not the signer's own key.
C17_NotCoordinator ==
    /\ tk_elected # NotEvaluated
    /\ tk_elected # SomeKey(signer_public_key)

\* C17: in a tick where the elected key is not the signer's own, the tick
\* has returned Ok at the election, having started no DKG, sent no message
\* and broadcast or submitted no transaction.
C17_NonCoordinatorDoesNothing ==
    C17_NotCoordinator =>
        /\ tk_effects = {}
        /\ tk_error = "None"
        /\ tk_pc \in {"tenure_completed", "wait", "returned"}

\* A tick of a signer that was not elected has ended.
C17_Witness ==
    /\ C17_NotCoordinator
    /\ tk_pc = "wait"
    /\ tenure_completed >= 1

\* C15: BitcoinBlockObserved is signalled only at the end of a tick: no
\* collected block is left to process, every block the walk-back collected
\* for the item has its row stored, the Stacks blocks up to the tenure tip
\* are stored and no deposit of a transaction of these blocks is left in
\* the map.
C15_SignalAfterAllBlocksWritten ==
    [][(signals' # signals) =>
          /\ pc = "signal"
          /\ signals' = signals + 1
          /\ blocks = <<>>
          /\ collected \subseteq PersistedHashes
          /\ collected # {} => (1..NumStacksBlocks) \subseteq db_stacks_blocks
          /\ \A b \in collected : \A t \in TxidsOf(BlockTxdata(b)) :
                deposit_requests[t] = <<>>]_vars

\* The signal of a tick whose walk-back collected two blocks has been sent.
C15_Witness ==
    /\ signals >= 1
    /\ pc = "idle"
    /\ Cardinality(collected) = 2
    /\ db_deposit_requests # {}

\* C20: the blocks a walk-back returns are at most `horizon`, end with the
\* new tip, are linked by prev_blockhash, and none of them is in storage;
\* when fewer than `horizon` are returned the walk-back stopped at a stored
\* block (the tip itself when none is returned).  No block row is written
\* for a hash that is already stored.
C20_WalkBackCollectsUnstoredChain ==
    /\ [][(pc = "walk" /\ pc' \in {"stacks", "signal"}) =>
             /\ Len(blocks') <= horizon
             /\ blocks' # <<>> => blocks'[Len(blocks')] = item.hash
             /\ \A i \in 1..(Len(blocks') - 1) : chain[blocks'[i + 1]] = blocks'[i]
             /\ \A i \in 1..Len(blocks') : blocks'[i] \notin PersistedHashes
             /\ blocks' = <<>> => item.hash \in PersistedHashes
             /\ (blocks' # <<>> /\ Len(blocks') < horizon)
                   => chain[blocks'[1]] \in PersistedHashes]_vars
    /\ [][(db_bitcoin_blocks' # db_bitcoin_blocks) =>
             /\ Head(blocks) \notin PersistedHashes
             /\ db_bitcoin_blocks' = db_bitcoin_blocks \cup {BitcoinBlockRow(Head(blocks))}]_vars

\* A walk-back with horizon 2 returned one block because its parent was
\* found in storage.
C20_Witness ==
    /\ pc = "stacks"
    /\ horizon = 2
    /\ Len(blocks) = 1
    /\ chain[blocks[1]] \in PersistedHashes

\* C18: a packet is passed to the state machine only from a message whose
\* tip tag is the round's tip and whose signature verifies; a message
\* failing either check leaves the state machine, the packets sent and the
\* round as they were, and the round goes on.
C18_FedOnlyWithRoundTipAndValidSignature ==
    [][/\ (ws_fed' # ws_fed) =>
             /\ ws_seen' = ws_seen + 1
             /\ ws_fed' = ws_fed + 1
             /\ ws_msg'.bitcoin_chain_tip = ws_tip
             /\ ws_msg'.verifies
       /\ (/\ ws_seen' # ws_seen
           /\ (ws_msg'.bitcoin_chain_tip # ws_tip \/ ~ws_msg'.verifies)) =>
             /\ ws_fed' = ws_fed
             /\ ws_sent' = ws_sent
             /\ ws_status = "running"
             /\ ws_status' = "running"]_vars

\* A packet was fed, then a message of a concurrent round was dropped, and
\* the round is still being driven.
C18_Witness ==
    /\ ws_status = "running"
    /\ ws_seen = 2
    /\ ws_fed = 1
    /\ ws_msg.bitcoin_chain_tip # ws_tip
    /\ ws_msg.verifies

\* C19: a coordinator-role packet is passed to the state machine only if
\* the sender's key is the one elected for the round's tip; a signer-role
\* packet only if its signer_id is registered and the registered key is
\* the sender's.
C19_PacketsAuthenticatedByRole ==
    [][(ws_fed' # ws_fed) =>
          LET sender == ws_msg'.signer_pub_key
              packet == ws_msg'.payload.inner
          IN /\ ws_msg'.payload.kind = "WstsMessage"
             /\ packet.msg \in CoordinatorPackets =>
                   coordinator_public_key(ws_tip, ws_signer_set, tk_width)
                       = SomeKey(sender)
             /\ packet.msg \in SignerPackets =>
                   /\ packet.signer_id \in DOMAIN ws_public_keys
                   /\ ws_public_keys[packet.signer_id] = PointFrom(sender)]_vars

\* Two packets were fed, the last one the NonceResponse of the signer
\* registered with id 1.
C19_Witness ==
    /\ ws_fed = 2
    /\ ws_sent = 1
    /\ ws_verdict = "process_message"
    /\ ws_msg.payload.inner.msg = "NonceResponse"
    /\ ws_msg.payload.inner.signer_id = 1

\* Block a is a proper ancestor of block b on the node's chain.
RECURSIVE IsAncestor(_, _)
IsAncestor(a, b) ==
    /\ chain[b] # NoHash
    /\ (chain[b] = a \/ IsAncestor(a, chain[b]))

\* C21: while a collected block is being processed, every collected
\* ancestor of it has been processed in full (its row is stored and it is
\* no longer waiting) and no block waiting behind it has a stored row; when
\* the tick has failed, the blocks waiting behind the failed one have no
\* stored row, and a failed run writes no block row.
C21_ParentFirstWithinTick ==
    /\ [](pc \in {"stacks", "write_block", "sbtc", "deposits", "failed"} =>
            /\ \A i \in 2..Len(blocks) : blocks[i] \notin PersistedHashes
            /\ blocks # <<>> =>
                  \A a \in collected :
                      IsAncestor(a, Head(blocks)) =>
                          /\ a \in PersistedHashes
                          /\ \A i \in 1..Len(blocks) : blocks[i] # a
            /\ \A i \in 1..Len(blocks) : \A j \in 1..Len(blocks) :
                  IsAncestor(blocks[i], blocks[j]) => i < j)
    /\ [][pc = "failed" => db_bitcoin_blocks' = db_bitcoin_blocks]_vars

\* Two blocks were collected, the parent has been processed and the row of
\* its child is about to be written.
C21_Witness ==
    /\ pc = "write_block"
    /\ Cardinality(collected) = 2
    /\ Len(blocks) = 1
    /\ chain[Head(blocks)] \in collected
    /\ chain[Head(blocks)] \in PersistedHashes

\* C22: between two ticks the map holds no entry for a txid whose deposit
\* request is stored, and the list under a txid is never longer than the
\* number of requests the registry holds for that txid.
C22_ConfirmedRequestDoesNotAccumulate ==
    /\ pc = "idle" =>
          \A t \in Txids :
              (\E row \in db_deposit_requests : row.txid = t)
                  => deposit_requests[t] = <<>>
    /\ \A t \in Txids :
          Len(deposit_requests[t])
              <= Cardinality({ i \in 1..Len(emily) : emily[i].txid = t })

\* C23: what a tick reads as aggregate key and signer set is the last key
\* rotation when storage holds one, otherwise the latest DKG shares when
\* storage holds them, otherwise no key and the bootstrap signing set; the
\* key is None exactly when storage holds neither.
C23_SignerSetFallbackChain ==
    [][(tk_pc = "signer_set" /\ tk_pc' = "is_coordinator") =>
          /\ db_last_key_rotation.some =>
                /\ tk_aggregate_key' = db_last_key_rotation.aggregate_key
                /\ tk_signer_set' = db_last_key_rotation.signer_set
          /\ (~db_last_key_rotation.some /\ db_latest_dkg_shares.some) =>
                /\ tk_aggregate_key' = db_latest_dkg_shares.aggregate_key
                /\ tk_signer_set' = db_latest_dkg_shares.signer_set
          /\ (~db_last_key_rotation.some /\ ~db_latest_dkg_shares.some) =>
                /\ tk_aggregate_key' = 0
                /\ tk_signer_set' = bootstrap_signing_set
          /\ tk_aggregate_key' = 0 <=>
                (~db_last_key_rotation.some /\ ~db_latest_dkg_shares.some)]_vars

\* Storage held a key rotation and DKG shares of another key, and the tick
\* took the key and the signer set of the rotation.
C23_Witness ==
    /\ tk_pc = "is_coordinator"
    /\ db_last_key_rotation.some
    /\ db_latest_dkg_shares.some
    /\ db_latest_dkg_shares.aggregate_key # db_last_key_rotation.aggregate_key
    /\ tk_aggregate_key = db_last_key_rotation.aggregate_key
    /\ tk_signer_set = db_last_key_rotation.signer_set

C25_NoWorkBeforeEpoch3AndFlagIsMonotonic ==
    /\ [](~is_epoch3 =>
             /\ tk_pc \in {"wait", "is_epoch3", "tenure_completed", "returned"}
             /\ tk_chain_tip = 0
             /\ tk_elected = NotEvaluated
             /\ tk_effects = {})
    /\ [][(tk_pc = "is_epoch3" /\ tk_pox_info' # NoPoxInfo
             /\ ~(/\ tk_pox_info'.nakamoto_start_height # 0
                  /\ tk_pox_info'.current_burnchain_block_height
                        > tk_pox_info'.nakamoto_start_height)) =>
             /\ tk_pc' = "tenure_completed"
             /\ tk_error' = "None"
             /\ ~is_epoch3']_vars
    /\ [][is_epoch3 => is_epoch3']_vars
    /\ [][(tk_pox_info' # tk_pox_info /\ tk_pox_info' # NoPoxInfo) =>
             (tk_pc = "is_epoch3" /\ ~is_epoch3)]_vars

\* The chain is at the Nakamoto start height, not past it: the tick asked
\* for the PoX info and ended without work.
C25_Witness ==
    /\ tk_pc = "tenure_completed"
    /\ tk_error = "None"
    /\ ~is_epoch3
    /\ tk_pox_info.nakamoto_start_height = MaxBurnHeight
    /\ tk_pox_info.current_burnchain_block_height = MaxBurnHeight
    /\ Len(tk_log) = 3

\* C26: when process_sign_request fails for a transaction, the wallet nonce
\* goes back to the nonce of that transaction, the next transaction built
\* takes the wallet nonce, and the i-th accepted transaction of the phase
\* has the nonce N + i - 1, N being the nonce fetched in the tick.
C26_AcceptedNoncesAreConsecutive ==
    /\ [][(co_failed' = co_failed + 1) => wallet_nonce' = co_tx_nonce]_vars
    /\ [][(co_pc = "construct" /\ co_pc' = "sign") => co_tx_nonce' = wallet_nonce]_vars
    /\ [](co_fetched.some =>
             \A i \in 1..Len(co_accepted) :
                 co_accepted[i] = co_fetched.nonce + i - 1)

\* A transaction was accepted, the next one failed, and the one built
\* after it was accepted with the nonce of the failed one.
C26_Witness ==
    /\ co_pc = "construct"
    /\ co_fetched.some
    /\ co_failed = 1
    /\ Len(co_accepted) = 2
    /\ co_accepted[2] = co_tx_nonce
    /\ co_accepted[2] = co_accepted[1] + 1

\* C27: in a tick get_account is called in at most one of the phases that
\* build Stacks transactions.
C27_NonceFetchedAtMostOncePerTick ==
    Cardinality(tk_effects \cap { GetAccountIn(phase) :
                     phase \in {"deploy", "rotate_key", "stacks_response"} }) <= 1

\* C28: submit_tx is called, and the transaction finalized, only after the
\* sign request was broadcast and with at least signatures_required
\* signatures; a pass of the loop adds a signature only for a message of
\* the round's tip with a signature for the request's txid, and a
\* signature add_signature refuses leaves the round collecting with the
\* signatures it had.
C28_SubmittedOnlyWithRequiredSignatures ==
    /\ [](st_status = "finalized" \/ st_submitted =>
             /\ st_sent
             /\ Cardinality(st_signatures) >= st_signatures_required)
    /\ [][st_signatures' # st_signatures =>
             /\ st_msg'.bitcoin_chain_tip = st_chain_tip
             /\ st_msg'.payload = "StacksTransactionSignature"
             /\ st_msg'.txid = st_txid
             /\ st_signatures' = st_signatures \cup {st_msg'.signature}]_vars
    /\ [][(/\ st_status = "collect"
           /\ NeedsSignatures
           /\ st_msg' # st_msg
           /\ ~AddSignatureOk(st_msg'.signature)) =>
             /\ st_status' = "collect"
             /\ st_signatures' = st_signatures]_vars

\* A transaction needing two signatures was submitted with the signatures
\* of both wallet keys, the last of them taken for the request's txid.
C28_Witness ==
    /\ st_submitted
    /\ st_signatures_required = 2
    /\ st_signatures = WalletPublicKeys
    /\ st_msg.txid = st_txid

\* The positions of the log that hold an event of the given kind.
LogPositions(kind) == { k \in 1..Len(sw_log) : sw_log[k].kind = kind }

\* The events of the given kind and transaction before position k.
LogBefore(k, kind, tx) ==
    { q \in 1..(k - 1) : sw_log[q].kind = kind /\ sw_log[q].tx = tx }

IsIncreasing(seq) == \A i, j \in 1..Len(seq) : i < j => seq[i] < seq[j]

\* A pre-sign request lists, transaction by transaction in package order,
\* the requests of the package.
ListsPackage(requests) ==
    /\ Len(requests) = Len(sw_package)
    /\ \A i \in 1..Len(requests) :
          /\ { requests[i].deposits[j] : j \in 1..Len(requests[i].deposits) }
                = { r \in TxidsOf(sw_package[i]) : r \in sw_deposits }
          /\ { requests[i].withdrawals[j] : j \in 1..Len(requests[i].withdrawals) }
                = { r \in TxidsOf(sw_package[i]) : r \notin sw_deposits }
          /\ IsIncreasing(requests[i].deposits)
          /\ IsIncreasing(requests[i].withdrawals)

PreSignRequestPrecedesSigning ==
    /\ \A p \in LogPositions("BitcoinPreSignRequest") : ListsPackage(sw_log[p].requests)
    /\ \A k \in LogPositions("WstsMessage") :
          \E p \in LogPositions("BitcoinPreSignRequest") : p < k

\* C29: a tick broadcasts at most one BitcoinPreSignRequest, and exactly
\* one when it has pending requests and gets past send_message; the
\* request lists the requests of every transaction of the package in
\* package order and comes before every WSTS message of a signing round.
C29_OnePreSignRequestBeforeEverySigningMessage ==
    /\ Cardinality(LogPositions("BitcoinPreSignRequest")) <= 1
    /\ (sw_pending # <<>> /\ sw_pc \notin {"start", "requests", "construct", "presign", "Err"})
          => Cardinality(LogPositions("BitcoinPreSignRequest")) = 1
    /\ PreSignRequestPrecedesSigning

\* A package of two transactions, the second of which is being signed
\* after the pre-sign request.
C29_Witness ==
    /\ Len(sw_package) = 2
    /\ LogPositions("BitcoinPreSignRequest") = {1}
    /\ \E k \in LogPositions("WstsMessage") : sw_log[k].tx = 2

\* C30: a transaction is broadcast after a signature for the signers' input
\* and for each of its deposit inputs, accept_deposits follows its
\* broadcast, the broadcasts are those of the first transactions of the
\* package in order, the signing of a transaction starts after
\* accept_deposits for the one before it, and nothing follows a failure.
C30_SignBroadcastAcceptInPackageOrder ==
    /\ \A k \in LogPositions("broadcast_transaction") :
          /\ \A input \in 0..NumDepositInputs(sw_package[sw_log[k].tx]) :
                \E q \in LogBefore(k, "signature", sw_log[k].tx) : sw_log[q].input = input
          /\ sw_log[k].tx = Cardinality(LogPositions("broadcast_transaction") \cap 1..k)
    /\ \A k \in LogPositions("accept_deposits") :
          LogBefore(k, "broadcast_transaction", sw_log[k].tx) # {}
    /\ \A k \in LogPositions("WstsMessage") :
          sw_log[k].tx > 1 => LogBefore(k, "accept_deposits", sw_log[k].tx - 1) # {}
    /\ sw_pc = "Err" => ~ENABLED NextSweep

\* Both transactions of a package were broadcast and accepted, the first
\* with a deposit input.
C30_Witness ==
    /\ sw_pc = "Ok"
    /\ Len(sw_package) = 2
    /\ NumDepositInputs(sw_package[1]) >= 1
    /\ \E k \in LogPositions("accept_deposits") : sw_log[k].tx = 2

HighestFeeRoots ==
    { t \in TxidsOf(fe_spending) : \A u \in TxidsOf(fe_spending) : fe_fees[u] <= fe_fees[t] }

\* C32: the function returns None without a transaction spending the
\* signers' UTXO; otherwise the root pays the highest fee, is among those
\* paying it the first or the last in txid order, and the total is the sum
\* of the fees of the root and of its descendants.
C32_RootIsHighestFeeTieByTxid ==
    fe_pc = "Ok" =>
        IF fe_spending = <<>> THEN fe_result = NoFees
        ELSE /\ fe_root \in HighestFeeRoots
             /\ \/ \A t \in HighestFeeRoots : fe_root <= t
                \/ \A t \in HighestFeeRoots : t <= fe_root
             /\ fe_result = SomeFees(fe_fees[fe_root]
                                     + SumOfFees(fe_descendants[fe_root], fe_fees))

\* C33: a round that finds the signed-message stream closed signals
\* shutdown on the termination handle and returns SignerShutdown, without
\* an operation result and with no Stacks transaction submitted; shutdown
\* is signalled by the rounds in no other case.
C33_ClosedStreamSignalsShutdown ==
    /\ [](ws_status = "SignerShutdown" => ws_shutdown /\ st_status = "start" /\ ~st_submitted)
    /\ [](st_status = "Err(SignerShutdown)" => st_shutdown /\ ~st_submitted)
    /\ [](ws_shutdown => ws_status = "SignerShutdown")
    /\ [](st_shutdown => st_status = "Err(SignerShutdown)")
    /\ [][ws_status = "SignerShutdown" => ws_status' = "SignerShutdown"]_vars
    /\ [][st_status = "Err(SignerShutdown)" => UNCHANGED <<st_status, st_submitted>>]_vars

\* The stream closed while the collection of Stacks signatures had taken a
\* message and still needed signatures.
C33_Witness ==
    /\ st_status = "Err(SignerShutdown)"
    /\ st_shutdown
    /\ st_msg # NoSignedMessage
    /\ ws_status = "Ok"

\* C39: a packet is passed to process_message only when the txid tag of
\* its message is the txid of the round being driven.
C39_FedOnlyWithRoundTxid ==
    ws_verdict = "process_message" => ws_msg.payload.txid = ws_txid

\* The aggregate key of the latest DKG shares in storage differs from the
\* key registered in the contract.
KeysDiffer == rk_last_dkg.some /\ rk_current_aggregate_key # rk_last_dkg.aggregate_key

EndsOf(id) == { i \in 1..Len(tk_log) : tk_log[i].event = "end" /\ tk_log[i].id = id }

\* The ticks started so far that are over.
TicksOver ==
    Cardinality({ i \in 1..Len(tk_log) : tk_log[i].event = "start" })
        - (IF InTick \/ tk_pc = "tenure_completed" THEN 1 ELSE 0)

\* The tick started last is over and one TenureCompleted was sent for it.
TickIsOver ==
    /\ tk_pc \in {"wait", "returned"}
    /\ Cardinality(EndsOf(tk_signal)) = 1

\* C35: every tick ends in the position that signals TenureCompleted,
\* whether process_new_blocks returned Ok, returned early or failed; the
\* signal is sent from that position only, once, and no work of the tick is
\* done there or afterwards; the signals sent count the ticks that are over
\* (but the one whose send failed and ended run); and every tick that has
\* started comes to the point where exactly one signal was sent for it.
C35_TenureCompletedOncePerTick ==
    /\ [][/\ (InTick /\ ~InTick') => tk_pc' = "tenure_completed"
          /\ tk_log' # tk_log /\ tk_pc # "wait" =>
                /\ tk_pc = "tenure_completed"
                /\ tk_pc' \in {"wait", "returned"}
                /\ tenure_completed' = tenure_completed + (IF tk_pc' = "wait" THEN 1 ELSE 0)
          /\ tenure_completed' # tenure_completed => tk_log' # tk_log /\ tk_pc # "wait"
          /\ ~InTick => tk_effects' = tk_effects \/ tk_pc = "wait"]_vars
    /\ [](tenure_completed + (IF run_result = "Signal" THEN 1 ELSE 0) = TicksOver)
    /\ [](\A id \in 1..MaxSignals : Cardinality(EndsOf(id)) <= 1)
    /\ [](InTick => <>TickIsOver)

\* TenureCompleted was signalled three times: after a tick that failed and
\* after a tick that broadcast a sweep transaction, among others.
C35_Witness ==
    /\ tenure_completed = 3
    /\ tk_pc = "wait"
    /\ Len(tk_log) = 6
    /\ tk_log[2].failed
    /\ ~tk_log[6].failed
    /\ "bitcoin_tx" \in tk_effects

\* The public key of signer s; the remaining keys belong to signers whose
\* evaluation is not followed.
PublicKeyOf(s) == s

\* Signer s has evaluated the election for the tip and found its own key.
ActsAsCoordinator(s) == el_result[s] = SomeKey(PublicKeyOf(s))

\* In a binary of either pointer width, exactly one key satisfies
\* given_key_is_coordinator for a tip and a non-empty signer set, and it is
\* a member of the set.
ExactlyOneMemberIsCoordinator ==
    \A width \in PointerWidths :
        LET elected == { k \in PublicKeys :
                           given_key_is_coordinator(k, el_tip, el_signer_set, width) }
        IN /\ Cardinality(elected) = 1
           /\ elected \subseteq el_signer_set

\* C36: among the signers that have evaluated the election for the same tip
\* and the same signer set, at most one finds its own key elected.
C36_AtMostOneCoordinatorPerTip ==
    Cardinality({ s \in Signers : ActsAsCoordinator(s) }) <= 1

\* The deposits held in the observer's map.
HeldDeposits(map) ==
    UNION { { map[t][i] : i \in 1..Len(map[t]) } : t \in DOMAIN map }

\* C37: no step of the observer removes a validated deposit from the map
\* without its row being in storage afterwards.
C37_RemovedOnlyWhenPersisted ==
    [][HeldDeposits(deposit_requests)
          \subseteq (HeldDeposits(deposit_requests') \cup db_deposit_requests')]_vars

\* The transactions of the blocks the observer has processed to the end.
ProcessedTxids ==
    UNION { TxidsOf(BlockTxdata(b)) :
              b \in PersistedHashes \ { blocks[i] : i \in 1..Len(blocks) } }

\* A row is never written for a transaction of a block processed before,
\* and a processed block stays processed.
StoredOnlyWithItsBlock ==
    [][/\ \A d \in db_deposit_requests' \ db_deposit_requests : d.txid \notin ProcessedTxids
       /\ ProcessedTxids \subseteq ProcessedTxids']_vars

\* C38: whenever the observer waits for the next tip, every validated
\* deposit it holds whose transaction is in a processed block has its row in
\* storage.
C38_ReturnedRequestsOfProcessedBlocksPersisted ==
    pc = "idle" =>
        \A d \in HeldDeposits(deposit_requests) :
            d.txid \in ProcessedTxids => d \in db_deposit_requests

\* The positions 1..n in order.
InOrder(n) == [i \in 1..n |-> i]

\* C40: once the nonce is fetched the deposit-completion phase cannot fail:
\* whatever happens to one request, the loop goes on and the phase returns
\* Ok; the requests are taken in the order storage returned them, each
\* once, and when the phase has returned Ok every one of them was taken.
C40_EverySweptDepositAttemptedOnce ==
    /\ [][(co_pc \in {"construct", "sign", "submit"}) => (co_pc' # "failed")]_vars
    /\ [](co_attempts = InOrder(Len(co_attempts)) /\ Len(co_attempts) <= co_swept)
    /\ [](co_pc = "done" => co_attempts = InOrder(co_swept))
    /\ [](co_pc \in {"construct", "sign", "submit", "done"}
             => Len(co_attempts) + co_reqs
                   = co_swept + (IF co_pc \in {"sign", "submit"} THEN 1 ELSE 0))

\* The phase returned Ok after three swept deposits: one could not be
\* constructed, one failed in process_sign_request and one was accepted.
C40_Witness ==
    /\ co_pc = "done"
    /\ co_swept = 3
    /\ Len(co_attempts) = 3
    /\ co_failed = 1
    /\ Len(co_accepted) = 1

====
